---- MODULE Spec2Model ----
(***************************************************************************)
(* voice-daily-note: the remote refinement client with its callers, the    *)
(* result parser, the idempotent publish step and the entry extractor.     *)
(* Texts are sequences of lines; a line is a record [k, t] whose kind k is *)
(* what the regular expressions of the source distinguish.                 *)
(***************************************************************************)
EXTENDS Integers, Sequences, FiniteSets, TLC

(***************************************************************************)
(* Program constants (config.py)                                           *)
(***************************************************************************)
MAX_RETRIES == 3
RETRY_BASE_DELAY == 2
RetryableStatus == {429, 500, 502, 503, 529}

(***************************************************************************)
(* Bounds of the model                                                     *)
(***************************************************************************)
\* date groups handed to refine_all
MaxGroups == 2
\* lines of a refinement artifact given to the result parser
MaxLines == 4
\* entries of a run
MaxEntries == 2
\* blocks of the remote answer in a pipeline run
MaxBlocks == 2
\* pipeline runs on one destination
MaxRuns == 2
\* records handed to one publish call
MaxRecords == 2
\* publish calls on one destination
MaxCalls == 2
\* chunks of lines in a source document
MaxChunks == 3
\* fields of the metadata of a segment
MaxFields == 2

VARIABLES
    \* ---- remote refinement client and its callers ----
    caller,        \* the function that runs: refine_all or a share stage
    force,         \* refine_all(force=...)
    dry_run,       \* refine_all(dry_run=...)
    has_key,       \* ANTHROPIC_API_KEY is set in the environment
    groups,        \* number of date groups (refine_all) / 1 for a share stage
    unit,          \* index of the group being processed, 1..groups+1
    outFiles,      \* per group: output/<date>.md, or the stage artifact
    prereq,        \* the previous stage's artifact exists (share stages)
    callPc,        \* "idle" | "loop" | "returned"
    attempt,       \* the loop variable of `for attempt in range(MAX_RETRIES)`
    requests,      \* requests.post calls made by the current call
    sleeps,        \* time.sleep delays of the current call, in order
    outcomes,      \* what each request of the current call met, as a class
    lastResp,      \* the response of the latest request
    ret,           \* value returned by the call: [text, truncated]
    success,
    skipped,
    failed,
    unitLog,       \* per finished group: how it ended and what the call returned
    runPc,         \* "start" | "running" | "done" | "aborted"
    abortReason,   \* the SystemExit diagnostic, "none" while there is none
    \* ---- share pipelines: result parser and publish step ----
    policy,          \* "shared_posts" (share_pipeline) | "content_vault" (share_to_social)
                     \* | "linkedin" (share_to_linkedin, which has no publish step)
    source_entries,  \* the ShareEntry list of the run, in extraction order
    today,           \* datetime.today() as a date
    artifact,        \* lines of 02_twitter.md / 02_social.md
    refined_entries, \* what the result parser returned
    vault,           \* weekly files of the Obsidian vault, by week label
    manual,          \* files of the content vault, as a set of [path, lines]
    written,         \* the paths the publish step returned
    sharePc,         \* position of main: "start" | "extract" | "refine" | "parse" | "parsed" |
                     \* "published" | "done" | "aborted" ("idle" between calls)
    run,             \* number of the pipeline run, from 1
    history,         \* per finished run: what it read and what it wrote
    \* ---- extractor ----
    input_dir,       \* the names of the .md files of the input directory, or NoDir
                     \* (under SpecEmpty each name comes with the lines of its file)
    md_files,        \* sorted(input_dir.glob("*.md")): the files still to parse
    cur,             \* the file read last: [name, lines]
    \* ---- drivers: main of the share pipelines and of pipeline.py ----
    step,            \* --step, "all" when the option is not given
    no_archive,      \* --no-archive (pipeline.py)
    extracted,       \* lines of 01_extracted.md, Absent while it does not exist
    linkedin_md,     \* lines of 03_linkedin.md, Absent while it does not exist
    unwritable,      \* destination files whose read or write raises OSError
    trace,           \* the effects of the run so far, in order
    exit,            \* how the process ended: "none" while it runs, "ok", or the
                     \* exception that ended it
    mainPc,          \* position of pipeline.main: "transcribe" | "refine" |
                     \* "refining" | "archive" | "done" ("idle": not running)
    audio_files,     \* number of audio files discover_audio_files found
    t_fail,          \* transcriptions that failed
    archived,        \* audio files moved to archive/
    \* ---- merge_to_shared_posts invocations that run at the same time ----
    merges,          \* inv: per invocation its records, its place in the loop over
                     \* the weeks and the content it read; log: the reads and
                     \* writes of all invocations, in the order they happened
    \* ---- transcribe.transcribe_all ----
    transcribing,    \* files: per audio file whether its transcript exists;
                     \* pos: the file the loop is at; success, skipped, failed:
                     \* the three counters; use_buzz; log: how each file was
                     \* counted; pc: "loop" | "returned" ("idle": not running)
    \* ---- the body of a remote request ----
    sent             \* chars: len(user_message) of the request prepared last;
                     \* max_tokens: the max_tokens of its body (NoRequest: none yet)

callVars == <<caller, force, dry_run, has_key, groups, unit, outFiles, prereq,
              callPc, attempt, requests, sleeps, outcomes, lastResp, ret,
              success,
              skipped, failed, unitLog, runPc, abortReason>>

shareVars == <<policy, source_entries, today, artifact, refined_entries, vault,
               manual, written, sharePc, run, history>>

extractVars == <<input_dir, md_files, cur>>

mainVars == <<step, no_archive, extracted, linkedin_md, unwritable, trace, exit,
              mainPc, audio_files, t_fail, archived>>

raceVars == <<merges>>

transVars == <<transcribing>>

tokenVars == <<sent>>

vars == <<callVars, shareVars, extractVars, mainVars, raceVars, transVars, tokenVars>>

(***************************************************************************)
(* Remote refinement client: _call_claude_api / _call_claude               *)
(***************************************************************************)
ShareCallers == {"refine_for_twitter", "generate_social_posts", "prepare_linkedin_posts"}
Callers == {"refine_all"} \cup ShareCallers

NoText == <<>>
SomeText == <<"text">>
TruncationMarker == "[TRUNCATED]"
NoFile == <<"<absent>">>
OldFile == <<"front_matter", "old">>

\* status codes that are neither 200 nor retryable
OtherStatus == {400, 401}

\* What one requests.post can meet: a response with a status code (a 200 carries
\* text blocks and a stop_reason), a Timeout, or another RequestException.
Responses ==
    {[kind |-> "resp", code |-> 200, text |-> t, stop |-> s] :
        t \in {NoText, SomeText}, s \in {"end_turn", "max_tokens"}}
    \cup {[kind |-> "resp", code |-> c, text |-> NoText, stop |-> "none"] :
        c \in RetryableStatus \cup OtherStatus}
    \cup {[kind |-> "timeout", code |-> 0, text |-> NoText, stop |-> "none"],
          [kind |-> "error", code |-> 0, text |-> NoText, stop |-> "none"]}

IsOk(r) == r.kind = "resp" /\ r.code = 200
IsRetryable(r) == r.kind = "timeout" \/ (r.kind = "resp" /\ r.code \in RetryableStatus)
IsFatal(r) == ~IsOk(r) /\ ~IsRetryable(r)

NoResp == [kind |-> "none", code |-> 0, text |-> NoText, stop |-> "none"]

\* the branch of the loop body a response takes
Class(r) ==
    IF r.kind = "timeout" THEN "timeout"
    ELSE IF r.kind = "error" THEN "request_error"
    ELSE IF r.code = 200 THEN "ok"
    ELSE IF r.code \in RetryableStatus THEN "retryable_status"
    ELSE "other_status"

FailedResult == [text |-> NoText, truncated |-> FALSE]

\* The value a 200 response makes the call return. Only _call_claude_api reads
\* stop_reason; the _call_claude copies return the joined text alone.
OkResult(c, r) ==
    [text |-> r.text,
     truncated |-> (c = "refine_all" /\ r.stop = "max_tokens")]

BackoffDelayConstant(k) == RETRY_BASE_DELAY
BackoffDelay(k) == RETRY_BASE_DELAY * (2 ^ k)

\* an off-by-one loop bound (mutation of LoopBound)
LoopBoundOffByOne == MAX_RETRIES + 1
LoopBound == MAX_RETRIES

\* the state a call starts from
BeginCall ==
    /\ callPc' = "loop"
    /\ attempt' = 0
    /\ requests' = 0
    /\ sleeps' = <<>>
    /\ outcomes' = <<>>
    /\ lastResp' = NoResp
    /\ ret' = FailedResult

runVars == <<caller, force, dry_run, has_key, groups, unit, outFiles, prereq,
             success, skipped, failed, unitLog, runPc, abortReason, shareVars, extractVars, mainVars>>

\* status 200: return the text
CallOk(r) ==
    /\ callPc = "loop" /\ attempt < LoopBound
    /\ IsOk(r)
    /\ requests' = requests + 1
    /\ outcomes' = Append(outcomes, Class(r))
    /\ lastResp' = r
    /\ ret' = OkResult(caller, r)
    /\ callPc' = "returned"
    /\ UNCHANGED <<raceVars, tokenVars, transVars, attempt, sleeps, runVars>>

\* retryable status or timeout: sleep, then the next iteration
RetryAfterFatal(r) == IsRetryable(r) \/ IsFatal(r)
ShouldRetry(r) == IsRetryable(r)

CallRetry(r) ==
    /\ callPc = "loop" /\ attempt < LoopBound
    /\ ShouldRetry(r)
    /\ requests' = requests + 1
    /\ outcomes' = Append(outcomes, Class(r))
    /\ lastResp' = r
    /\ sleeps' = Append(sleeps, BackoffDelay(attempt))
    /\ attempt' = attempt + 1
    /\ UNCHANGED <<raceVars, tokenVars, transVars, callPc, ret, runVars>>

\* any other status or request error: return "" at once
CallFail(r) ==
    /\ callPc = "loop" /\ attempt < LoopBound
    /\ ~IsOk(r) /\ ~ShouldRetry(r)
    /\ requests' = requests + 1
    /\ outcomes' = Append(outcomes, Class(r))
    /\ lastResp' = r
    /\ ret' = FailedResult
    /\ callPc' = "returned"
    /\ UNCHANGED <<raceVars, tokenVars, transVars, attempt, sleeps, runVars>>

\* the for loop ran out: "API failed after all retries"
CallExhausted ==
    /\ callPc = "loop" /\ attempt >= LoopBound
    /\ ret' = FailedResult
    /\ callPc' = "returned"
    /\ UNCHANGED <<raceVars, tokenVars, transVars, attempt, requests, sleeps, outcomes, lastResp, runVars>>

(***************************************************************************)
(* refine.refine_all: one remote call per date group                       *)
(***************************************************************************)
\* what the log keeps of a group: how it was counted, the stop_reason and the
\* text of the response that ended its call
LogUnit(how) ==
    Append(unitLog, [how |-> how, stop |-> lastResp.stop, text |-> lastResp.text])

EndCall == callPc' = "idle"

callState == <<attempt, requests, sleeps, outcomes, lastResp, ret>>

\* refine.py 181-188: no groups -> (0, 0, 0); get_api_key unless dry_run
RefineAllEnter ==
    /\ caller = "refine_all" /\ runPc = "start"
    /\ IF groups = 0
       THEN runPc' = "done" /\ UNCHANGED abortReason
       ELSE IF ~dry_run /\ ~has_key
            THEN runPc' = "aborted" /\ abortReason' = "no_api_key"
            ELSE runPc' = "running" /\ UNCHANGED abortReason
    /\ UNCHANGED <<raceVars, tokenVars, transVars, mainVars, extractVars, shareVars, caller, force, dry_run, has_key, groups, unit, outFiles, prereq,
                   success, skipped, failed, unitLog, callPc, callState>>

InLoop == caller = "refine_all" /\ runPc = "running" /\ callPc = "idle" /\ unit <= groups

\* refine.py 196-199: the output exists and force is off
RefineAllSkipExisting ==
    /\ InLoop
    /\ outFiles[unit] # NoFile /\ ~force
    /\ skipped' = skipped + 1
    /\ unit' = unit + 1
    /\ unitLog' = Append(unitLog, [how |-> "skipped", stop |-> "none", text |-> NoText])
    /\ UNCHANGED <<raceVars, tokenVars, transVars, mainVars, extractVars, shareVars, caller, force, dry_run, has_key, groups, outFiles, prereq,
                   success, failed, runPc, abortReason, callPc, callState>>

\* refine.py 201-208
RefineAllDryRun ==
    /\ InLoop
    /\ ~(outFiles[unit] # NoFile /\ ~force)
    /\ dry_run
    /\ skipped' = skipped + 1
    /\ unit' = unit + 1
    /\ unitLog' = Append(unitLog, [how |-> "skipped", stop |-> "none", text |-> NoText])
    /\ UNCHANGED <<raceVars, tokenVars, transVars, mainVars, extractVars, shareVars, caller, force, dry_run, has_key, groups, outFiles, prereq,
                   success, failed, runPc, abortReason, callPc, callState>>

\* refine.py 210-214
RefineAllCall ==
    /\ InLoop
    /\ ~(outFiles[unit] # NoFile /\ ~force)
    /\ ~dry_run
    /\ BeginCall
    /\ UNCHANGED <<raceVars, tokenVars, transVars, runVars>>

\* refine.py 216-219: the call returned "": count the group failed, go on
RefineAllFailedAborts ==
    /\ caller = "refine_all" /\ runPc = "running" /\ callPc = "returned"
    /\ ret.text = NoText
    /\ runPc' = "aborted"
    /\ abortReason' = "empty_response"
    /\ EndCall
    /\ UNCHANGED <<raceVars, tokenVars, transVars, mainVars, extractVars, shareVars, caller, force, dry_run, has_key, groups, unit, outFiles, prereq,
                   success, skipped, failed, unitLog, callState>>

\* a failed group whose output file is rewritten with the empty text (mutation of
\* RefineAllFailed)
RefineAllFailedClobbers ==
    /\ caller = "refine_all" /\ runPc = "running" /\ callPc = "returned"
    /\ ret.text = NoText
    /\ outFiles' = [outFiles EXCEPT ![unit] = <<"front_matter">>]
    /\ failed' = failed + 1
    /\ unit' = unit + 1
    /\ unitLog' = LogUnit("failed")
    /\ EndCall
    /\ UNCHANGED <<raceVars, tokenVars, transVars, mainVars, extractVars, shareVars, caller, force, dry_run, has_key, groups, prereq,
                   success, skipped, runPc, abortReason, callState>>

RefineAllFailed ==
    /\ caller = "refine_all" /\ runPc = "running" /\ callPc = "returned"
    /\ ret.text = NoText
    /\ failed' = failed + 1
    /\ unit' = unit + 1
    /\ unitLog' = LogUnit("failed")
    /\ EndCall
    /\ UNCHANGED <<raceVars, tokenVars, transVars, mainVars, extractVars, shareVars, caller, force, dry_run, has_key, groups, outFiles, prereq,
                   success, skipped, runPc, abortReason, callState>>

\* refine.py 221-228 and _write_output_md 167-173
OutputMd(refined, truncated) ==
    <<"front_matter">> \o refined \o (IF truncated THEN <<TruncationMarker>> ELSE <<>>)

RefineAllWrite ==
    /\ caller = "refine_all" /\ runPc = "running" /\ callPc = "returned"
    /\ ret.text # NoText
    /\ outFiles' = [outFiles EXCEPT ![unit] = OutputMd(ret.text, ret.truncated)]
    /\ success' = success + 1
    /\ unit' = unit + 1
    /\ unitLog' = LogUnit("success")
    /\ EndCall
    /\ UNCHANGED <<raceVars, tokenVars, transVars, mainVars, extractVars, shareVars, caller, force, dry_run, has_key, groups, prereq,
                   skipped, failed, runPc, abortReason, callState>>

\* refine.py 230
RefineAllReturn ==
    /\ caller = "refine_all" /\ runPc = "running" /\ callPc = "idle"
    /\ unit > groups
    /\ runPc' = "done"
    /\ UNCHANGED <<raceVars, tokenVars, transVars, mainVars, extractVars, shareVars, caller, force, dry_run, has_key, groups, unit, outFiles, prereq,
                   success, skipped, failed, unitLog, abortReason, callPc, callState>>

(***************************************************************************)
(* The share stages: refine_for_twitter, generate_social_posts,            *)
(* prepare_linkedin_posts. One remote call for the whole artifact.         *)
(***************************************************************************)
\* a stage that takes its input for present (mutation of MissingArtifact)
ArtifactNeverMissing == FALSE
\* `if not extracted_path.exists():` / `if not refined_path.exists():`
MissingArtifact == ~prereq

\* main obtains the key first (get_api_key); the stage then checks its input
StageEnter ==
    /\ caller \in ShareCallers /\ runPc = "start"
    /\ IF ~has_key
       THEN /\ runPc' = "aborted" /\ abortReason' = "no_api_key"
            /\ UNCHANGED <<callPc, callState>>
       ELSE IF MissingArtifact
            THEN /\ runPc' = "aborted" /\ abortReason' = "missing_artifact"
                 /\ UNCHANGED <<callPc, callState>>
            ELSE /\ runPc' = "running" /\ UNCHANGED abortReason
                 /\ BeginCall
    /\ UNCHANGED <<raceVars, tokenVars, transVars, mainVars, extractVars, shareVars, caller, force, dry_run, has_key, groups, unit, outFiles, prereq,
                   success, skipped, failed, unitLog>>

\* `if not refined: raise SystemExit(...)`
StageEmpty ==
    /\ caller \in ShareCallers /\ runPc = "running" /\ callPc = "returned"
    /\ ret.text = NoText
    /\ runPc' = "aborted"
    /\ abortReason' = "empty_response"
    /\ unitLog' = LogUnit("failed")
    /\ EndCall
    /\ UNCHANGED <<raceVars, tokenVars, transVars, mainVars, extractVars, shareVars, caller, force, dry_run, has_key, groups, unit, outFiles, prereq,
                   success, skipped, failed, callState>>

\* out_path.write_text(refined)
StageWrite ==
    /\ caller \in ShareCallers /\ runPc = "running" /\ callPc = "returned"
    /\ ret.text # NoText
    /\ outFiles' = [outFiles EXCEPT ![unit] = ret.text]
    /\ unit' = unit + 1
    /\ unitLog' = LogUnit("success")
    /\ runPc' = "done"
    /\ EndCall
    /\ UNCHANGED <<raceVars, tokenVars, transVars, mainVars, extractVars, shareVars, caller, force, dry_run, has_key, groups, prereq,
                   success, skipped, failed, abortReason, callState>>

(***************************************************************************)
(* Texts. A text is a sequence of lines; a title is a sequence of          *)
(* characters. Line kinds:                                                 *)
(*   head    "## " followed by the title t  (t = <<>>: the bare "## ")     *)
(*   headws  "## " followed by white space only                            *)
(*   sep     "===" (optionally followed by white space)                    *)
(*   blank   an empty or white-space line                                  *)
(*   text    any other line                                                *)
(***************************************************************************)
Heading(t) == [k |-> "head", t |-> t]
HeadingWs == [k |-> "headws", t |-> <<>>]
Sep == [k |-> "sep", t |-> <<>>]
Blank == [k |-> "blank", t |-> <<>>]
Text(x) == [k |-> "text", t |-> x]
Absent == <<[k |-> "absent", t |-> <<>>]>>

SeqsUpTo(S, n) == UNION {[1..k -> S] : k \in 0..n}

T_Foo == <<"F", "o", "o">>
T_Bar == <<"B", "a", "r">>
T_Empty == <<>>
\* the text "##" a heading marker shrinks to when str.strip() removes what follows
HashHash == Text(<<"#", "#">>)
Body == Text(<<"x">>)

RECURSIVE DropLeadingBlank(_)
DropLeadingBlank(ls) ==
    IF ls # <<>> /\ ls[1].k = "blank" THEN DropLeadingBlank(Tail(ls)) ELSE ls

RECURSIVE DropTrailingBlank(_)
DropTrailingBlank(ls) ==
    IF ls # <<>> /\ ls[Len(ls)].k = "blank"
    THEN DropTrailingBlank(SubSeq(ls, 1, Len(ls) - 1))
    ELSE ls

\* str.rstrip(): trailing blank lines go, and so does the white space that ends
\* the last line (a heading marker with nothing but white space becomes "##")
RStrip(ls) ==
    LET d == DropTrailingBlank(ls)
    IN  IF d # <<>> /\ (d[Len(d)].k = "headws" \/ (d[Len(d)].k = "head" /\ d[Len(d)].t = <<>>))
        THEN SubSeq(d, 1, Len(d) - 1) \o <<HashHash>>
        ELSE d

\* str.strip()
Strip(ls) == DropLeadingBlank(RStrip(ls))

(***************************************************************************)
(* Dates: [y, m, d]; the empty source_date is NoDate. The ISO week is      *)
(* computed as datetime.isocalendar() does.                                *)
(***************************************************************************)
Date(y, m, d) == [y |-> y, m |-> m, d |-> d]
NoDate == [y |-> 0, m |-> 0, d |-> 0]

IsLeap(y) == (y % 4 = 0) /\ ((y % 100 # 0) \/ (y % 400 = 0))

DaysBeforeYear(y) ==
    365 * (y - 1) + ((y - 1) \div 4) - ((y - 1) \div 100) + ((y - 1) \div 400)

DaysInMonth(y, m) ==
    IF m = 2 THEN (IF IsLeap(y) THEN 29 ELSE 28)
    ELSE IF m \in {4, 6, 9, 11} THEN 30 ELSE 31

RECURSIVE DaysBeforeMonth(_, _)
DaysBeforeMonth(y, m) ==
    IF m <= 1 THEN 0 ELSE DaysBeforeMonth(y, m - 1) + DaysInMonth(y, m - 1)

Ordinal(dt) == DaysBeforeYear(dt.y) + DaysBeforeMonth(dt.y, dt.m) + dt.d

\* the ordinal of the Monday that starts ISO week 1 of year y
IsoWeek1Monday(y) ==
    LET firstday == DaysBeforeYear(y) + 1
        firstweekday == (firstday + 6) % 7
        monday == firstday - firstweekday
    IN  IF firstweekday > 3 THEN monday + 7 ELSE monday

IsoCalendar(dt) ==
    LET o == Ordinal(dt)
        w1 == IsoWeek1Monday(dt.y)
    IN  IF o < w1
        THEN [year |-> dt.y - 1, week |-> ((o - IsoWeek1Monday(dt.y - 1)) \div 7) + 1]
        ELSE IF ((o - w1) \div 7) >= 52 /\ o >= IsoWeek1Monday(dt.y + 1)
             THEN [year |-> dt.y + 1, week |-> 1]
             ELSE [year |-> dt.y, week |-> ((o - w1) \div 7) + 1]

\* share_pipeline._iso_week_label: "Week N - YYYY"
IsoWeekLabelByMonth(dt) == [week |-> dt.m, year |-> dt.y]
IsoWeekLabel(dt) ==
    LET iso == IsoCalendar(dt) IN [week |-> iso.week, year |-> iso.year]

\* source_date[:7]
MonthLabel(dt) == [y |-> dt.y, m |-> dt.m]


(***************************************************************************)
(* Result parser: share_pipeline._parse_refined_entries and                *)
(* share_to_social._parse_social_posts                                     *)
(***************************************************************************)
\* re.split(r"^===\s*$", text, flags=re.MULTILINE): the chunks between "===" lines
RECURSIVE RawBlocksFrom(_, _, _)
RawBlocksFrom(ls, i, acc) ==
    IF i > Len(ls) THEN acc
    ELSE IF ls[i].k = "sep"
         THEN RawBlocksFrom(ls, i + 1, Append(acc, <<>>))
         ELSE RawBlocksFrom(ls, i + 1, [acc EXCEPT ![Len(acc)] = Append(@, ls[i])])

RawBlocks(ls) == RawBlocksFrom(ls, 1, << <<>> >>)

NonEmpty(b) == b # <<>>

\* blocks = [b.strip() for b in re.split(...) if b.strip()]
Blocks(ls) ==
    LET raw == RawBlocks(ls)
    IN  SelectSeq([i \in 1..Len(raw) |-> Strip(raw[i])], NonEmpty)

\* re.match(r"## (.+)", block): the block starts with "## " and a character that
\* is no line break follows it
TitleMatches(block) ==
    \/ block[1].k = "head" /\ block[1].t # <<>>
    \/ block[1].k = "headws"

\* title_match.group(1).strip()
TitleOf(block) == IF block[1].k = "head" THEN block[1].t ELSE T_Empty

\* block[title_match.end():].strip()
ContentOf(block) == Strip(Tail(block))

\* source_entries[i].source_date if i < len(source_entries) else "", with i the
\* zero-based index of the block (pos = i + 1 here)
\* a parser that dates every record as the first entry (mutation of SourceDateAt)
SourceDateOfFirst(entries, pos) ==
    IF entries # <<>> THEN entries[1].source_date ELSE NoDate
\* a parser that dates a block beyond the last entry as the last entry
\* (mutation of SourceDateAt)
SourceDateClamped(entries, pos) ==
    IF pos <= Len(entries) THEN entries[pos].source_date
    ELSE IF entries # <<>> THEN entries[Len(entries)].source_date ELSE NoDate
SourceDateShifted(entries, pos) ==
    IF pos + 1 <= Len(entries) THEN entries[pos + 1].source_date ELSE NoDate
SourceDateAt(entries, pos) ==
    IF pos <= Len(entries) THEN entries[pos].source_date ELSE NoDate

\* `if not source_date: source_date = today`
KeepEmptyDate(sd, td) == sd
OrToday(sd, td) == IF sd = NoDate THEN td ELSE sd

\* a parser that counts only the blocks it keeps: the record of a block is dated
\* as the entry at the record's own position (mutation of ParseFrom)
RECURSIVE ParseCounting(_, _, _, _, _)
ParseCounting(blocks, pos, n, entries, td) ==
    IF pos > Len(blocks) THEN <<>>
    ELSE IF TitleMatches(blocks[pos])
         THEN << [title |-> TitleOf(blocks[pos]),
                  content |-> ContentOf(blocks[pos]),
                  source_date |-> OrToday(SourceDateAt(entries, n + 1), td)] >>
              \o ParseCounting(blocks, pos + 1, n + 1, entries, td)
         ELSE ParseCounting(blocks, pos + 1, n, entries, td)
ParseFromRecordIndex(blocks, pos, entries, td) ==
    ParseCounting(blocks, pos, pos - 1, entries, td)

RECURSIVE ParseFrom(_, _, _, _)
ParseFrom(blocks, pos, entries, td) ==
    IF pos > Len(blocks) THEN <<>>
    ELSE (IF TitleMatches(blocks[pos])
          THEN << [title |-> TitleOf(blocks[pos]),
                   content |-> ContentOf(blocks[pos]),
                   source_date |-> OrToday(SourceDateAt(entries, pos), td)] >>
          ELSE <<>>)
         \o ParseFrom(blocks, pos + 1, entries, td)

\* a parser that returns one record per entry (mutation of ParseBlocks)
ParseBlocksPerEntry(text, entries, td) ==
    LET all == ParseFrom(Blocks(text), 1, entries, td)
    IN  SubSeq(all, 1, IF Len(all) < Len(entries) THEN Len(all) ELSE Len(entries))
ParseBlocks(text, entries, td) == ParseFrom(Blocks(text), 1, entries, td)

\* share_pipeline._parse_refined_entries (02_twitter.md must exist)
ParseRefinedEntries ==
    /\ sharePc = "parse" /\ policy = "shared_posts"
    /\ IF artifact = Absent
       THEN /\ sharePc' = "aborted" /\ exit' = "SystemExit: 02 artifact not found"
            /\ UNCHANGED refined_entries
       ELSE /\ refined_entries' = ParseBlocks(artifact, source_entries, today)
            /\ sharePc' = "parsed"
            /\ UNCHANGED exit
    /\ UNCHANGED <<raceVars, tokenVars, transVars, policy, source_entries, today, artifact, vault, manual, written,
                   run, history, callVars, extractVars,
                   step, no_archive, extracted, linkedin_md, unwritable, trace, mainPc,
                   audio_files, t_fail, archived>>

\* share_to_social._parse_social_posts (02_social.md must exist); `content` stands
\* for the brief and the platform sections cut out of the block
ParseSocialPosts ==
    /\ sharePc = "parse" /\ policy = "content_vault"
    /\ IF artifact = Absent
       THEN /\ sharePc' = "aborted" /\ exit' = "SystemExit: 02 artifact not found"
            /\ UNCHANGED refined_entries
       ELSE /\ refined_entries' = ParseBlocks(artifact, source_entries, today)
            /\ sharePc' = "parsed"
            /\ UNCHANGED exit
    /\ UNCHANGED <<raceVars, tokenVars, transVars, policy, source_entries, today, artifact, vault, manual, written,
                   run, history, callVars, extractVars,
                   step, no_archive, extracted, linkedin_md, unwritable, trace, mainPc,
                   audio_files, t_fail, archived>>

(***************************************************************************)
(* Publish, policy (a): share_pipeline.merge_to_shared_posts               *)
(***************************************************************************)
\* week_groups: the week labels in the order of their first record
RECURSIVE WeekOrder(_, _)
WeekOrder(recs, seen) ==
    IF recs = <<>> THEN <<>>
    ELSE LET w == IsoWeekLabel(recs[1].source_date)
         IN  IF w \in seen
             THEN WeekOrder(Tail(recs), seen)
             ELSE <<w>> \o WeekOrder(Tail(recs), seen \cup {w})

\* week_groups[label]
RECURSIVE InWeek(_, _)
InWeek(recs, w) ==
    IF recs = <<>> THEN <<>>
    ELSE (IF IsoWeekLabel(recs[1].source_date) = w THEN <<recs[1]>> ELSE <<>>)
         \o InWeek(Tail(recs), w)

\* set(re.findall(r"^## (.+)$", existing_content, flags=re.MULTILINE)): the text
\* after "## " of every heading line that has any (white space counts)
NoExistingTitles(ls) == {}
ExistingTitles(ls) ==
    {ls[i].t : i \in {j \in DOMAIN ls : ls[j].k = "head" /\ ls[j].t # <<>>}}
    \cup (IF \E j \in DOMAIN ls : ls[j].k = "headws" THEN {<<" ">>} ELSE {})

\* a filter that returns the new entries last first (mutation of NewEntries)
RECURSIVE NewEntriesReversed(_, _)
NewEntriesReversed(entries, existing) ==
    IF entries = <<>> THEN <<>>
    ELSE NewEntriesReversed(Tail(entries), existing)
         \o (IF entries[1].title \in existing THEN <<>> ELSE <<entries[1]>>)

\* new_entries = [e for e in entries if e.title not in existing_titles]
RECURSIVE NewEntries(_, _)
NewEntries(entries, existing) ==
    IF entries = <<>> THEN <<>>
    ELSE (IF entries[1].title \in existing THEN <<>> ELSE <<entries[1]>>)
         \o NewEntries(Tail(entries), existing)

\* separator = "\n\n===\n\n"
Separator == <<Blank, Sep, Blank>>

\* f"## {e.title}\n\n{e.content}"
FormatEntry(e) ==
    <<Heading(e.title), Blank>> \o (IF e.content = <<>> THEN <<Blank>> ELSE e.content)

\* separator.join(parts)
RECURSIVE JoinEntries(_)
JoinEntries(es) ==
    IF es = <<>> THEN <<>>
    ELSE IF Len(es) = 1 THEN FormatEntry(es[1])
    ELSE FormatEntry(es[1]) \o Separator \o JoinEntries(Tail(es))

\* a merge that writes the new entries over the file (mutation of NewContent)
NewContentOverwrites(existing, new) == JoinEntries(new)
\* the content written to a weekly file that gets new entries
NewContent(existing, new) ==
    IF existing # <<>>
    THEN RStrip(existing) \o Separator \o JoinEntries(new)
    ELSE JoinEntries(new)

\* one iteration of `for week_label, entries in week_groups.items()`
MergeBucket(existing, entries) ==
    LET new == NewEntries(entries, ExistingTitles(existing))
    IN  IF new = <<>> THEN existing ELSE NewContent(existing, new)

\* a merge that lists every weekly file of the call (mutation of WrittenWeeks)
WrittenWeeksAll(order, recs, files) == order
RECURSIVE WrittenWeeks(_, _, _)
WrittenWeeks(order, recs, files) ==
    IF order = <<>> THEN <<>>
    ELSE (IF NewEntries(InWeek(recs, order[1]), ExistingTitles(files[order[1]])) # <<>>
          THEN <<order[1]>> ELSE <<>>)
         \o WrittenWeeks(Tail(order), recs, files)

\* the grouping loop calls _iso_week_label on every record before anything is
\* written; datetime.fromisoformat raises ValueError on a date it rejects
GroupingRaises(recs) ==
    \E i \in DOMAIN recs : ~(recs[i].source_date.m \in 1..12
                              /\ recs[i].source_date.d \in
                                   1..DaysInMonth(recs[i].source_date.y, recs[i].source_date.m))

MergeRaisesValueError ==
    /\ sharePc = "parsed" /\ policy = "shared_posts"
    /\ GroupingRaises(refined_entries)
    /\ sharePc' = "aborted"
    /\ exit' = "ValueError"
    /\ UNCHANGED <<raceVars, tokenVars, transVars, policy, source_entries, today, artifact, refined_entries, vault, manual,
                   written, run, history, callVars, extractVars,
                   step, no_archive, extracted, linkedin_md, unwritable, trace, mainPc,
                   audio_files, t_fail, archived>>

\* the loop over week_groups from week i on, when some weekly file cannot be
\* read or written: the weeks before the failing one are written, then
\* read_text / write_text raises and nothing restores them
RECURSIVE MergeUntilRaise(_, _, _, _)
MergeUntilRaise(order, i, recs, files) ==
    IF i > Len(order) \/ order[i] \in unwritable THEN files
    ELSE MergeUntilRaise(order, i + 1, recs,
             [files EXCEPT ![order[i]] = MergeBucket(files[order[i]], InWeek(recs, order[i]))])

MergeToSharedPosts ==
    /\ sharePc = "parsed" /\ policy = "shared_posts"
    /\ ~GroupingRaises(refined_entries)
    /\ LET order == WeekOrder(refined_entries, {})
       IN  IF \E i \in DOMAIN order : order[i] \in unwritable
           THEN /\ vault' = MergeUntilRaise(order, 1, refined_entries, vault)
                /\ sharePc' = "aborted"
                /\ exit' = "OSError"
                /\ UNCHANGED written
           ELSE /\ vault' = [w \in DOMAIN vault |->
                                MergeBucket(vault[w], InWeek(refined_entries, w))]
                /\ written' = WrittenWeeks(order, refined_entries, vault)
                /\ sharePc' = "published"
                /\ UNCHANGED exit
    /\ UNCHANGED <<raceVars, tokenVars, transVars, policy, source_entries, today, artifact, refined_entries, manual,
                   run, history, callVars, extractVars,
                   step, no_archive, extracted, linkedin_md, unwritable, trace, mainPc,
                   audio_files, t_fail, archived>>

(***************************************************************************)
(* Publish, policy (b): share_to_social.save_to_content_vault              *)
(***************************************************************************)
UnsafeChars == {"\\", "/", ":", "*", "?", "\"", "<", ">", "|"}

RECURSIVE StripChars(_, _)
StripChars(cs, set) ==
    IF cs # <<>> /\ cs[1] \in set THEN StripChars(Tail(cs), set)
    ELSE IF cs # <<>> /\ cs[Len(cs)] \in set
         THEN StripChars(SubSeq(cs, 1, Len(cs) - 1), set)
         ELSE cs

\* share_to_social._safe_filename
SafeFilename(title) ==
    LET slug == [i \in DOMAIN title |-> IF title[i] \in UnsafeChars THEN "-" ELSE title[i]]
        stripped == StripChars(slug, {".", " "})
    IN  IF stripped = <<>> THEN <<"u", "n", "t", "i", "t", "l", "e", "d">> ELSE stripped

\* month_dir / f"{post.source_date}-{slug}.md"
PathOf(post) ==
    [month |-> MonthLabel(post.source_date), date |-> post.source_date,
     slug |-> SafeFilename(post.title)]

\* a save that takes no file for present (mutation of PathExists)
PathNeverExists(files, path) == FALSE
\* file_path.exists()
PathExists(files, path) == \E f \in files : f.path = path

\* the lines written for a post: heading, then brief and platform sections
FormatPost(post) == <<Heading(post.title), Blank>> \o post.content

\* the loop of save_to_content_vault from post i on: [files, written]
RECURSIVE SaveFrom(_, _, _, _)
SaveFrom(posts, i, files, paths) ==
    IF i > Len(posts) THEN [files |-> files, written |-> paths, raised |-> FALSE]
    ELSE IF PathExists(files, PathOf(posts[i]))
         THEN SaveFrom(posts, i + 1, files, paths)
         ELSE IF PathOf(posts[i]) \in unwritable
              THEN [files |-> files, written |-> paths, raised |-> TRUE]
              ELSE SaveFrom(posts, i + 1,
                            files \cup {[path |-> PathOf(posts[i]),
                                         lines |-> FormatPost(posts[i])]},
                            Append(paths, PathOf(posts[i])))

\* write_text raising (out.raised) ends main with the files written so far
SaveToContentVault ==
    /\ sharePc = "parsed" /\ policy = "content_vault"
    /\ LET out == SaveFrom(refined_entries, 1, manual, <<>>)
       IN  /\ manual' = out.files
           /\ IF out.raised
              THEN sharePc' = "aborted" /\ exit' = "OSError" /\ UNCHANGED written
              ELSE sharePc' = "published" /\ written' = out.written /\ UNCHANGED exit
    /\ UNCHANGED <<raceVars, tokenVars, transVars, policy, source_entries, today, artifact, refined_entries, vault,
                   run, history, callVars, extractVars,
                   step, no_archive, extracted, linkedin_md, unwritable, trace, mainPc,
                   audio_files, t_fail, archived>>

(***************************************************************************)
(* Extractor: _parse_entries_from_file and extract_share_entries.          *)
(* Source lines add these kinds to the ones above:                         *)
(*   fm    "---" (front-matter delimiter, body separator)                  *)
(*   tag   a metadata line whose tag field holds #Share                    *)
(*   meta  a metadata line without the tag                                 *)
(*   date  "date: YYYY-MM-DD"                                              *)
(***************************************************************************)
FmLine == [k |-> "fm", t |-> <<>>]
TagLine == [k |-> "tag", t |-> <<>>]
MetaLine == [k |-> "meta", t |-> <<>>]
DateLine(dt) == [k |-> "date", t |-> <<>>, d |-> dt]
BodyY == Text(<<"y">>)
T_Baz == <<"B", "a", "z">>

\* file names: `rank` is the place of the name in sorted() order, `date` the
\* YYYY-MM-DD found in the stem (NoDate when there is none)
F_Dated == [rank |-> 1, date |-> Date(2024, 1, 1)]
F_Plain == [rank |-> 2, date |-> NoDate]
FileNames == {F_Dated, F_Plain}
NoDir == {[rank |-> 0, date |-> NoDate]}
NoFileRead == [name |-> [rank |-> 0, date |-> NoDate], lines |-> <<>>]

\* sorted(input_dir.glob("*.md"))
RECURSIVE Sorted(_)
Sorted(names) ==
    IF names = {} THEN <<>>
    ELSE LET least == CHOOSE n \in names : \A m \in names : n.rank <= m.rank
         IN  <<least>> \o Sorted(names \ {least})

\* content_start: past the closing "---" when the first line is "---"
RECURSIVE ClosingFm(_, _)
ClosingFm(lines, i) ==
    IF i > Len(lines) THEN 0
    ELSE IF lines[i].k = "fm" THEN i ELSE ClosingFm(lines, i + 1)

ContentOfFile(lines) ==
    IF lines # <<>> /\ lines[1].k = "fm" /\ ClosingFm(lines, 2) # 0
    THEN SubSeq(lines, ClosingFm(lines, 2) + 1, Len(lines))
    ELSE lines

\* re.search(r"date:\s*(\d{4}-\d{2}-\d{2})", text), else the date in the file name
RECURSIVE FirstDateLine(_)
FirstDateLine(lines) ==
    IF lines = <<>> THEN NoDate
    ELSE IF lines[1].k = "date" THEN lines[1].d ELSE FirstDateLine(Tail(lines))

SourceDateOfFile(name, lines) ==
    IF FirstDateLine(lines) # NoDate THEN FirstDateLine(lines) ELSE name.date

IsHeadingLine(l) == l.k \in {"head", "headws"}

\* re.split(r"(?=^## )", content, flags=re.MULTILINE): a piece starts at every
\* heading line; the first piece is what precedes the first heading
RECURSIVE EntriesRawFrom(_, _, _)
EntriesRawFrom(ls, i, acc) ==
    IF i > Len(ls) THEN acc
    ELSE IF IsHeadingLine(ls[i])
         THEN EntriesRawFrom(ls, i + 1, Append(acc, <<ls[i]>>))
         ELSE EntriesRawFrom(ls, i + 1, [acc EXCEPT ![Len(acc)] = Append(@, ls[i])])

EntriesRaw(ls) == EntriesRawFrom(ls, 1, << <<>> >>)

\* entry_text.startswith("## ")
StartsWithMarker(entry_text) == entry_text # <<>> /\ IsHeadingLine(entry_text[1])

\* re.search(r"\*\*标签\*\*[：:].*#Share", entry_text)
\* A metadata line written out field by field: "**label**：value | **label**：value",
\* each value a sequence of tokens separated by blanks. TagLine is the line
\* "**标签**：#Share", MetaLine a line without the label.
FieldsLine(fs) == [k |-> "fields", t |-> <<>>, f |-> fs]
Field(label, value) == [label |-> label, value |-> value]
\* the labels 标签 (tag) and 场景 (scene)
TagLabel == "biaoqian"
SceneLabel == "changjing"
ShareToken == <<"#", "S", "h", "a", "r", "e">>
SharedToken == <<"#", "S", "h", "a", "r", "e", "d">>
WorkToken == <<"#", "W", "o", "r", "k">>

IsPrefix(p, tok) == Len(p) <= Len(tok) /\ SubSeq(tok, 1, Len(p)) = p

\* the text "#Share" occurs in the value
HoldsShare(value) == \E n \in DOMAIN value : IsPrefix(ShareToken, value[n])

\* r"\*\*标签\*\*[：:].*#Share" on one line: "#Share" anywhere after the label
LineTagged(l) ==
    \/ l.k = "tag"
    \/ /\ l.k = "fields"
       /\ \E i \in DOMAIN l.f :
              /\ l.f[i].label = TagLabel
              /\ \E j \in i..Len(l.f) : HoldsShare(l.f[j].value)

\* share_to_linkedin: r"\*\*标签\*\*[：:]\s*#Share", "#Share" right after the label
LineTaggedAtStart(l) ==
    \/ l.k = "tag"
    \/ /\ l.k = "fields"
       /\ \E i \in DOMAIN l.f :
              /\ l.f[i].label = TagLabel
              /\ l.f[i].value # <<>>
              /\ IsPrefix(ShareToken, l.f[i].value[1])

HasTagAlways(entry_text) == TRUE
HasTag(entry_text) ==
    IF policy = "linkedin"
    THEN \E i \in DOMAIN entry_text : LineTaggedAtStart(entry_text[i])
    ELSE \E i \in DOMAIN entry_text : LineTagged(entry_text[i])

\* parts = re.split(r"^---\s*$", entry_text, maxsplit=1, flags=re.MULTILINE)
BodyOf(entry_text) ==
    LET sep == ClosingFm(entry_text, 1)
    IN  IF sep # 0
        THEN Strip(SubSeq(entry_text, sep + 1, Len(entry_text)))
        ELSE Strip(SubSeq(entry_text, 3, Len(entry_text)))

\* the body of the `for entry_text in entries_raw` loop: the entries one piece gives
EntryOfPiece(piece, name, sd) ==
    LET entry_text == Strip(piece)
    IN  IF ~StartsWithMarker(entry_text) THEN <<>>
        ELSE IF ~HasTag(entry_text) THEN <<>>
        ELSE IF ~TitleMatches(entry_text) THEN <<>>
        ELSE IF BodyOf(entry_text) = <<>> THEN <<>>
        ELSE << [title |-> TitleOf(entry_text), body |-> BodyOf(entry_text),
                 source_file |-> name, source_date |-> sd] >>

RECURSIVE EntriesOfPieces(_, _, _)
EntriesOfPieces(pieces, name, sd) ==
    IF pieces = <<>> THEN <<>>
    ELSE EntryOfPiece(pieces[1], name, sd) \o EntriesOfPieces(Tail(pieces), name, sd)

ParseEntriesFromFile(name, lines) ==
    EntriesOfPieces(EntriesRaw(ContentOfFile(lines)), name, SourceDateOfFile(name, lines))

\* source documents: what precedes the first heading (nothing, a front matter, an
\* unclosed front matter, plain text), then chunks of lines
FrontMatters ==
    {<<>>, <<FmLine, DateLine(Date(2024, 1, 8)), FmLine>>, <<FmLine>>, <<BodyY>>}
ChunkAlphabet ==
    { <<Heading(T_Foo), TagLine, Body>>,
      <<Heading(T_Bar), TagLine, FmLine, BodyY>>,
      <<Heading(T_Bar), TagLine, FmLine>>,
      <<Heading(T_Baz), MetaLine, Body>>,
      <<Heading(T_Empty), TagLine, Body>> }

RECURSIVE Concat(_)
Concat(cs) == IF cs = <<>> THEN <<>> ELSE cs[1] \o Concat(Tail(cs))

\* extract_share_entries up to its loop: a missing directory and a directory
\* without .md files return []
ExtractScan ==
    /\ sharePc = "scan"
    /\ IF input_dir = NoDir \/ input_dir = {}
       THEN md_files' = <<>> /\ sharePc' = "extracted"
       ELSE md_files' = Sorted(input_dir) /\ sharePc' = "files"
    /\ source_entries' = <<>>
    /\ UNCHANGED <<raceVars, tokenVars, transVars, policy, today, artifact, refined_entries, vault, manual, written,
                   run, history, input_dir, cur, callVars, mainVars>>

\* `for f in md_files`: the next file is read (filepath.read_text)
ReadFile ==
    /\ sharePc = "files"
    /\ md_files # <<>>
    /\ cur = NoFileRead
    /\ \E fm \in FrontMatters, cs \in SeqsUpTo(ChunkAlphabet, MaxChunks) :
          cur' = [name |-> Head(md_files), lines |-> fm \o Concat(cs)]
    /\ UNCHANGED <<raceVars, tokenVars, transVars, policy, source_entries, today, artifact, refined_entries, vault, manual,
                   written, sharePc, run, history, input_dir, md_files, callVars, mainVars>>

\* notes of one segment whose metadata is written field by field, on one
\* pipe-delimited line or one field per line
TagValues ==
    { <<>>, <<ShareToken>>, <<WorkToken>>, <<WorkToken, ShareToken>>, <<SharedToken>> }
Fields == {Field(l, v) : l \in {TagLabel, SceneLabel}, v \in TagValues}
Layouts == {"pipe", "lines"}
MetaLines(fs, layout) ==
    IF layout = "pipe" THEN <<FieldsLine(fs)>>
    ELSE [i \in DOMAIN fs |-> FieldsLine(<<fs[i]>>)]
Note(fs, layout) == <<Heading(T_Foo)>> \o MetaLines(fs, layout) \o <<FmLine, Body>>

\* `for f in md_files`: the next file is read, a note of one segment
ReadNote ==
    /\ sharePc = "files"
    /\ md_files # <<>>
    /\ cur = NoFileRead
    /\ \E fs \in SeqsUpTo(Fields, MaxFields) \ {<<>>}, layout \in Layouts :
          cur' = [name |-> Head(md_files), lines |-> Note(fs, layout)]
    /\ UNCHANGED <<raceVars, tokenVars, transVars, policy, source_entries, today, artifact, refined_entries, vault, manual,
                   written, sharePc, run, history, input_dir, md_files, callVars, mainVars>>

\* all_entries.extend(_parse_entries_from_file(f))
ExtractFile ==
    /\ sharePc = "files"
    /\ md_files # <<>>
    /\ cur.name = Head(md_files)
    /\ source_entries' = source_entries \o ParseEntriesFromFile(cur.name, cur.lines)
    /\ md_files' = Tail(md_files)
    /\ UNCHANGED <<raceVars, tokenVars, transVars, policy, today, artifact, refined_entries, vault, manual, written,
                   sharePc, run, history, input_dir, cur, callVars, mainVars>>

\* `if entries: print(...)`: the iteration ends
ExtractFileDone ==
    /\ sharePc = "files"
    /\ cur # NoFileRead
    /\ \A i \in DOMAIN md_files : md_files[i] # cur.name
    /\ cur' = NoFileRead
    /\ UNCHANGED <<raceVars, tokenVars, transVars, policy, source_entries, today, artifact, refined_entries, vault, manual,
                   written, sharePc, run, history, input_dir, md_files, callVars, mainVars>>

\* `return all_entries`
ExtractReturn ==
    /\ sharePc = "files"
    /\ md_files = <<>>
    /\ cur = NoFileRead
    /\ sharePc' = "extracted"
    /\ UNCHANGED <<raceVars, tokenVars, transVars, policy, source_entries, today, artifact, refined_entries, vault, manual,
                   written, run, history, extractVars, callVars, mainVars>>

(***************************************************************************)
(* Inputs of the share pipelines                                           *)
(***************************************************************************)
D_Jan01 == Date(2024, 1, 1)
D_Jan08 == Date(2024, 1, 8)
T_Jan04 == Date(2024, 1, 4)
T_Feb05 == Date(2024, 2, 5)
EntryDates == {D_Jan01, D_Jan08, NoDate}
Todays == {T_Jan04, T_Feb05}
WeekLabels == {IsoWeekLabel(dt) : dt \in (EntryDates \ {NoDate}) \cup Todays}

\* ShareEntry: the parser and the publish step read nothing but source_date
Entry(dt) ==
    [title |-> T_Foo, body |-> <<Body>>,
     source_file |-> IF dt = NoDate THEN F_Plain ELSE F_Dated, source_date |-> dt]
EntrySeqs == SeqsUpTo({Entry(dt) : dt \in EntryDates}, MaxEntries)

\* what the remote service may answer, block by block
BlockAlphabet ==
    { <<Heading(T_Foo), Body>>, <<Heading(T_Bar), Body>>, <<HeadingWs, Body>>, <<Body>> }

RECURSIVE JoinBlocks(_)
JoinBlocks(bs) ==
    IF bs = <<>> THEN <<>>
    ELSE IF Len(bs) = 1 THEN bs[1]
    ELSE bs[1] \o <<Sep>> \o JoinBlocks(Tail(bs))

Artifacts == {JoinBlocks(bs) : bs \in SeqsUpTo(BlockAlphabet, MaxBlocks) \ {<<>>}}

\* texts given to the result parser line by line
LineAlphabet == {Sep, Blank, Heading(T_Foo), HeadingWs, Body}
ArtifactTexts == SeqsUpTo(LineAlphabet, MaxLines)
ParserEntrySeqs == SeqsUpTo({Entry(D_Jan01), Entry(NoDate)}, MaxEntries)

\* RefinedEntry / SocialPost values handed to the publish step
Rec(t, c, dt) == [title |-> t, content |-> c, source_date |-> dt]
RecordAlphabet ==
    { Rec(T_Foo, <<Body>>, D_Jan01), Rec(T_Bar, <<Body>>, D_Jan01),
      Rec(T_Bar, <<Body, Heading(T_Foo)>>, D_Jan01), Rec(T_Foo, <<Body>>, D_Jan08) }
RecordSeqs == SeqsUpTo(RecordAlphabet, MaxRecords)

ExtractIdle == input_dir = {} /\ md_files = <<>> /\ cur = NoFileRead

\* no concurrent invocation
NoMerges == [inv |-> <<>>, log |-> <<>>]
RaceIdle == merges = NoMerges

\* transcribe_all not running
NoTranscribing == [files |-> <<>>, pos |-> 1, success |-> 0, skipped |-> 0, failed |-> 0,
                   use_buzz |-> FALSE, log |-> <<>>, pc |-> "idle"]
TransIdle == transcribing = NoTranscribing

\* no request prepared yet
NoRequest == [chars |-> 0, max_tokens |-> 0]
TokenIdle == sent = NoRequest

\* a full run (no --step), every destination file writable, pipeline.main not running
MainIdle ==
    /\ step = "all"
    /\ no_archive = FALSE
    /\ extracted = Absent
    /\ linkedin_md = Absent
    /\ unwritable = {}
    /\ trace = <<>>
    /\ exit = "none"
    /\ mainPc = "idle"
    /\ audio_files = 0
    /\ t_fail = 0
    /\ archived = 0

CallIdle ==
    /\ caller = "refine_for_twitter"
    /\ force = FALSE /\ dry_run = FALSE /\ has_key = TRUE
    /\ groups = 0 /\ unit = 1 /\ outFiles = <<>> /\ prereq = TRUE
    /\ callPc = "idle" /\ attempt = 0 /\ requests = 0
    /\ sleeps = <<>> /\ outcomes = <<>> /\ lastResp = NoResp /\ ret = FailedResult
    /\ success = 0 /\ skipped = 0 /\ failed = 0 /\ unitLog = <<>>
    /\ runPc = "done" /\ abortReason = "none"

ShareIdle ==
    /\ policy = "shared_posts"
    /\ source_entries = <<>>
    /\ today = T_Jan04
    /\ artifact = Absent
    /\ refined_entries = <<>>
    /\ vault = [w \in WeekLabels |-> <<>>]
    /\ manual = {}
    /\ written = <<>>
    /\ sharePc = "idle"
    /\ run = 0
    /\ history = <<>>

(***************************************************************************)
(* The result parser on its own                                            *)
(***************************************************************************)
InitParse ==
    /\ CallIdle
    /\ MainIdle
    /\ ExtractIdle
    /\ RaceIdle
    /\ TransIdle
    /\ TokenIdle
    /\ policy \in {"shared_posts", "content_vault"}
    /\ source_entries \in ParserEntrySeqs
    /\ today = T_Jan04
    /\ artifact \in ArtifactTexts
    /\ refined_entries = <<>>
    /\ vault = [w \in WeekLabels |-> <<>>]
    /\ manual = {}
    /\ written = <<>>
    /\ sharePc = "parse"
    /\ run = 1
    /\ history = <<>>

NextParse == ParseRefinedEntries \/ ParseSocialPosts

SpecParse == InitParse /\ [][NextParse]_vars

(***************************************************************************)
(* The publish step called again and again on one destination              *)
(***************************************************************************)
CallPublish(recs) ==
    /\ sharePc \in {"idle", "published"}
    /\ run < MaxCalls
    /\ refined_entries' = recs
    /\ written' = <<>>
    /\ sharePc' = "parsed"
    /\ run' = run + 1
    /\ UNCHANGED <<raceVars, tokenVars, transVars, policy, source_entries, today, artifact, vault, manual, history, callVars, extractVars, mainVars>>

InitMerge ==
    /\ CallIdle
    /\ MainIdle
    /\ ExtractIdle
    /\ RaceIdle
    /\ TransIdle
    /\ TokenIdle
    /\ policy \in {"shared_posts", "content_vault"}
    /\ source_entries = <<>>
    /\ today = T_Jan04
    /\ artifact = Absent
    /\ refined_entries = <<>>
    /\ vault = [w \in WeekLabels |-> <<>>]
    /\ manual = {}
    /\ written = <<>>
    /\ sharePc = "idle"
    /\ run = 0
    /\ history = <<>>

NextMerge ==
    \/ \E recs \in RecordSeqs : CallPublish(recs)
    \/ MergeToSharedPosts
    \/ SaveToContentVault

SpecMerge == InitMerge /\ [][NextMerge]_vars

(***************************************************************************)
(* The publish step on a destination where a file may fail to be read or   *)
(* written (a weekly file that is not UTF-8 or is a directory, a file name *)
(* the file system rejects)                                                *)
(***************************************************************************)
FailingFiles(p) ==
    IF p = "shared_posts"
    THEN {IsoWeekLabel(D_Jan08)}
    ELSE {PathOf(Rec(T_Bar, <<Body>>, D_Jan01))}

InitPublishFail ==
    /\ CallIdle
    /\ ExtractIdle
    /\ RaceIdle
    /\ TransIdle
    /\ TokenIdle
    /\ step = "all"
    /\ no_archive = FALSE
    /\ extracted = Absent
    /\ linkedin_md = Absent
    /\ policy \in {"shared_posts", "content_vault"}
    /\ unwritable \in SUBSET FailingFiles(policy)
    /\ trace = <<>>
    /\ exit = "none"
    /\ mainPc = "idle"
    /\ audio_files = 0 /\ t_fail = 0 /\ archived = 0
    /\ source_entries = <<>>
    /\ today = T_Jan04
    /\ artifact = Absent
    /\ refined_entries = <<>>
    /\ vault = [w \in WeekLabels |-> <<>>]
    /\ manual = {}
    /\ written = <<>>
    /\ sharePc = "idle"
    /\ run = 0
    /\ history = <<>>

NextPublishFail ==
    \/ \E recs \in RecordSeqs : CallPublish(recs)
    \/ MergeToSharedPosts
    \/ SaveToContentVault

SpecPublishFail == InitPublishFail /\ [][NextPublishFail]_vars

(***************************************************************************)
(* merge_to_shared_posts invocations that run at the same time on one      *)
(* vault. An invocation reads a weekly file (read_text) and writes it      *)
(* (write_text) in two steps, and another invocation may run in between.   *)
(***************************************************************************)
RaceRecordAlphabet ==
    { Rec(T_Foo, <<Body>>, D_Jan01), Rec(T_Bar, <<Body>>, D_Jan01),
      Rec(T_Foo, <<Body>>, D_Jan08) }
RaceRecordSeqs == SeqsUpTo(RaceRecordAlphabet, MaxRecords) \ {<<>>}
Invocations == {1, 2}

\* an invocation that has grouped its records by week and is about to read the
\* file of the first week
Invocation(recs) ==
    [entries |-> recs, order |-> WeekOrder(recs, {}), i |-> 1, pc |-> "read",
     existing |-> <<>>]

\* a merge that reads the file again when it writes (mutation of ExistingAtWrite)
ExistingReread(read, current) == current
\* existing_content as the statements after the read use it: the text read_text
\* returned, not what the file holds by then
ExistingAtWrite(read, current) == read

\* `existing_content = file_path.read_text(...) if file_path.exists() else ""`
RaceRead(p) ==
    /\ p \in DOMAIN merges.inv
    /\ merges.inv[p].pc = "read"
    /\ LET m == merges.inv[p]
           w == m.order[m.i]
       IN  merges' = [inv |-> [merges.inv EXCEPT ![p] =
                                  [m EXCEPT !.existing = vault[w], !.pc = "write"]],
                      log |-> Append(merges.log,
                                     [p |-> p, op |-> "read", w |-> w,
                                      content |-> vault[w]])]
    /\ UNCHANGED <<transVars, tokenVars, callVars, shareVars, extractVars, mainVars>>

\* the rest of the iteration: existing_titles, new_entries, `continue` when there
\* are none, else write_text of the content read + separator + the new entries
RaceWrite(p) ==
    /\ p \in DOMAIN merges.inv
    /\ merges.inv[p].pc = "write"
    /\ LET m == merges.inv[p]
           w == m.order[m.i]
           existing == ExistingAtWrite(m.existing, vault[w])
           new == NewEntries(InWeek(m.entries, w), ExistingTitles(existing))
           content == IF new = <<>> THEN vault[w] ELSE NewContent(existing, new)
           next == [m EXCEPT !.i = m.i + 1,
                             !.pc = IF m.i + 1 > Len(m.order) THEN "done" ELSE "read"]
       IN  /\ vault' = [vault EXCEPT ![w] = content]
           /\ merges' = [inv |-> [merges.inv EXCEPT ![p] = next],
                         log |-> Append(merges.log,
                                        [p |-> p,
                                         op |-> IF new = <<>> THEN "skip" ELSE "write",
                                         w |-> w, content |-> content])]
    /\ UNCHANGED <<transVars, tokenVars, callVars, extractVars, mainVars, policy, source_entries, today,
                   artifact, refined_entries, manual, written, sharePc, run, history>>

InitRace ==
    /\ CallIdle
    /\ TransIdle
    /\ TokenIdle
    /\ MainIdle
    /\ ExtractIdle
    /\ policy = "shared_posts"
    /\ source_entries = <<>>
    /\ today = T_Jan04
    /\ artifact = Absent
    /\ refined_entries = <<>>
    /\ vault \in {[w \in WeekLabels |-> <<>>],
                  [w \in WeekLabels |->
                      IF w = IsoWeekLabel(D_Jan01)
                      THEN FormatEntry(Rec(T_Foo, <<Body>>, D_Jan01)) ELSE <<>>]}
    /\ manual = {}
    /\ written = <<>>
    /\ sharePc = "idle"
    /\ run = 0
    /\ history = <<>>
    /\ \E recs \in [Invocations -> RaceRecordSeqs] :
          merges = [inv |-> [p \in Invocations |-> Invocation(recs[p])], log |-> <<>>]

NextRace ==
    \/ \E p \in Invocations : RaceRead(p)
    \/ \E p \in Invocations : RaceWrite(p)

SpecRace == InitRace /\ [][NextRace]_vars

(***************************************************************************)
(* The content vault given titles that hold characters a file name cannot  *)
(***************************************************************************)
T_ASlashB == <<"A", "/", "B">>
T_AColonB == <<"A", ":", "B">>
SlugRecordAlphabet ==
    {Rec(t, <<Body>>, dt) : t \in {T_ASlashB, T_AColonB, T_Foo}, dt \in {D_Jan01, D_Jan08}}
SlugRecordSeqs == SeqsUpTo(SlugRecordAlphabet, MaxRecords)

InitVault ==
    /\ CallIdle
    /\ MainIdle
    /\ ExtractIdle
    /\ RaceIdle
    /\ TransIdle
    /\ TokenIdle
    /\ policy = "content_vault"
    /\ source_entries = <<>>
    /\ today = T_Jan04
    /\ artifact = Absent
    /\ refined_entries = <<>>
    /\ vault = [w \in WeekLabels |-> <<>>]
    /\ manual = {}
    /\ written = <<>>
    /\ sharePc = "idle"
    /\ run = 0
    /\ history = <<>>

NextVault ==
    \/ \E recs \in SlugRecordSeqs : CallPublish(recs)
    \/ SaveToContentVault

SpecVault == InitVault /\ [][NextVault]_vars

(***************************************************************************)
(* main of share_pipeline / share_to_social, run after run on unchanged    *)
(* source documents                                                        *)
(***************************************************************************)
\* the values of --step each driver accepts ("all": the option is absent)
Steps(p) ==
    IF p = "shared_posts" THEN {"all", "extract", "refine"}
    ELSE IF p = "content_vault" THEN {"all", "extract", "generate"}
    ELSE {"all", "extract", "twitter", "linkedin"}

\* datetime.fromisoformat accepts the date
ValidDate(dt) == dt.m \in 1..12 /\ dt.d \in 1..DaysInMonth(dt.y, dt.m)

\* write_extracted: "## title\n", body, "" for every entry, joined by "\n"
RECURSIVE WriteExtracted(_)
WriteExtracted(entries) ==
    IF entries = <<>> THEN <<>>
    ELSE <<Heading(entries[1].title), Blank>> \o entries[1].body \o <<Blank>>
         \o WriteExtracted(Tail(entries))

\* extract_share_entries on a directory given with the lines of its files:
\* [] for a missing directory and for one without .md files, else the entries
\* of the files in sorted order
RECURSIVE EntriesOfFiles(_)
EntriesOfFiles(fs) ==
    IF fs = <<>> THEN <<>>
    ELSE ParseEntriesFromFile([rank |-> fs[1].rank, date |-> fs[1].date], fs[1].lines)
         \o EntriesOfFiles(Tail(fs))

ExtractNothing(dir) == <<>>
ExtractShareEntries(dir) ==
    IF dir = NoDir \/ dir = {} THEN <<>> ELSE EntriesOfFiles(Sorted(dir))

\* main: entries = extract_share_entries(input_dir)
MainScan ==
    /\ sharePc = "start"
    /\ source_entries' = ExtractShareEntries(input_dir)
    /\ sharePc' = "extract"
    /\ UNCHANGED <<raceVars, tokenVars, transVars, policy, today, artifact, refined_entries, vault,
                   manual, written, run, history, callVars, extractVars, mainVars>>

\* a driver that writes 01_extracted.md also when there is no entry (mutation of
\* MainExtract)
MainExtractWritesEmpty ==
    /\ sharePc = "extract"
    /\ IF source_entries = <<>>
       THEN /\ sharePc' = "done" /\ exit' = "ok"
            /\ extracted' = WriteExtracted(source_entries)
            /\ trace' = Append(trace, "write_extracted")
       ELSE /\ sharePc' = "extracted"
            /\ extracted' = WriteExtracted(source_entries)
            /\ trace' = Append(trace, "write_extracted")
            /\ UNCHANGED exit
    /\ UNCHANGED <<raceVars, tokenVars, transVars, policy, source_entries, today, artifact, refined_entries, vault,
                   manual, written, run, history, callVars, extractVars,
                   step, no_archive, linkedin_md, unwritable, mainPc, audio_files,
                   t_fail, archived>>

\* a driver that goes on to step 2 without writing 01_extracted.md (mutation of
\* MainExtract)
MainExtractNoWrite ==
    /\ sharePc = "extract"
    /\ sharePc' = "extracted"
    /\ UNCHANGED <<raceVars, tokenVars, transVars, policy, source_entries, today, artifact, refined_entries, vault,
                   manual, written, run, history, callVars, extractVars, mainVars>>

\* extract_share_entries; "No #Share entries found. Nothing to do."; otherwise
\* write_extracted, which comes before every look at --dry-run and --step
MainExtract ==
    /\ sharePc = "extract"
    /\ IF source_entries = <<>>
       THEN /\ sharePc' = "done" /\ exit' = "ok"
            /\ UNCHANGED <<extracted, trace>>
       ELSE /\ sharePc' = "extracted"
            /\ extracted' = WriteExtracted(source_entries)
            /\ trace' = Append(trace, "write_extracted")
            /\ UNCHANGED exit
    /\ UNCHANGED <<raceVars, tokenVars, transVars, policy, source_entries, today, artifact, refined_entries, vault,
                   manual, written, run, history, callVars, extractVars,
                   step, no_archive, linkedin_md, unwritable, mainPc, audio_files,
                   t_fail, archived>>

\* `if args.dry_run:` the preview. share_pipeline prints the week label of every
\* dated entry, and _iso_week_label raises ValueError on a date that
\* datetime.fromisoformat rejects; the other two drivers print no label.
PreviewRaises ==
    /\ policy = "shared_posts"
    /\ \E i \in DOMAIN source_entries :
          /\ source_entries[i].source_date # NoDate
          /\ ~ValidDate(source_entries[i].source_date)

MainDryRun ==
    /\ sharePc = "extracted"
    /\ dry_run
    /\ IF PreviewRaises
       THEN sharePc' = "aborted" /\ exit' = "ValueError"
       ELSE sharePc' = "done" /\ exit' = "ok"
    /\ UNCHANGED <<raceVars, tokenVars, transVars, policy, source_entries, today, artifact, refined_entries, vault,
                   manual, written, run, history, callVars, extractVars,
                   step, no_archive, extracted, linkedin_md, unwritable, trace, mainPc,
                   audio_files, t_fail, archived>>

\* `if args.step == "extract":` "Done (extract only)."
MainStepExtract ==
    /\ sharePc = "extracted"
    /\ ~dry_run
    /\ step = "extract"
    /\ sharePc' = "done" /\ exit' = "ok"
    /\ UNCHANGED <<raceVars, tokenVars, transVars, policy, source_entries, today, artifact, refined_entries, vault,
                   manual, written, run, history, callVars, extractVars,
                   step, no_archive, extracted, linkedin_md, unwritable, trace, mainPc,
                   audio_files, t_fail, archived>>

\* a get_api_key that accepts an unset variable (mutation of KeyMissing)
KeyNeverMissing == FALSE
\* the check get_api_key makes: SystemExit when the variable is not set
KeyMissing == ~has_key

\* `api_key = get_api_key()`, the first statement of step 2
MainGetApiKey ==
    /\ sharePc = "extracted"
    /\ ~dry_run
    /\ step # "extract"
    /\ trace' = Append(trace, "get_api_key")
    /\ IF KeyMissing
       THEN sharePc' = "aborted" /\ exit' = "SystemExit: no api key"
       ELSE sharePc' = "refine" /\ UNCHANGED exit
    /\ UNCHANGED <<raceVars, tokenVars, transVars, policy, source_entries, today, artifact, refined_entries, vault,
                   manual, written, run, history, callVars, extractVars,
                   step, no_archive, extracted, linkedin_md, unwritable, mainPc,
                   audio_files, t_fail, archived>>

\* a driver that ignores --step after step 2 (mutation of RefineStep)
RefineStepIgnored == {}
\* the step after which --step ends the run of step 2
RefineStep == {"refine", "generate", "twitter"}

\* refine_for_twitter / generate_social_posts, then the --step check of main:
\* `refined` is what the remote call returned, "" when it failed
MainRefine(refined) ==
    /\ sharePc = "refine"
    /\ IF extracted = Absent
       THEN /\ sharePc' = "aborted" /\ exit' = "SystemExit: 01_extracted.md not found"
            /\ UNCHANGED <<artifact, trace>>
       ELSE IF refined = <<>>
       THEN /\ sharePc' = "aborted" /\ exit' = "SystemExit: empty response"
            /\ trace' = Append(trace, "call:refine")
            /\ UNCHANGED artifact
       ELSE /\ artifact' = refined
            /\ trace' = trace \o <<"call:refine", "write_02">>
            /\ IF step \in RefineStep
               THEN sharePc' = "done" /\ exit' = "ok"
               ELSE /\ sharePc' = IF policy = "linkedin" THEN "linkedin" ELSE "parse"
                    /\ UNCHANGED exit
    /\ UNCHANGED <<raceVars, tokenVars, transVars, policy, source_entries, today, refined_entries, vault,
                   manual, written, run, history, callVars, extractVars,
                   step, no_archive, extracted, linkedin_md, unwritable, mainPc,
                   audio_files, t_fail, archived>>

\* share_to_linkedin step 3: prepare_linkedin_posts, then "Done! All 3 steps"
MainLinkedin(result) ==
    /\ sharePc = "linkedin"
    /\ IF artifact = Absent
       THEN /\ sharePc' = "aborted" /\ exit' = "SystemExit: 02_twitter.md not found"
            /\ UNCHANGED <<linkedin_md, trace>>
       ELSE IF result = <<>>
       THEN /\ sharePc' = "aborted" /\ exit' = "SystemExit: empty response"
            /\ trace' = Append(trace, "call:linkedin")
            /\ UNCHANGED linkedin_md
       ELSE /\ linkedin_md' = result
            /\ trace' = trace \o <<"call:linkedin", "write_03">>
            /\ sharePc' = "done" /\ exit' = "ok"
    /\ UNCHANGED <<raceVars, tokenVars, transVars, policy, source_entries, today, artifact, refined_entries, vault,
                   manual, written, run, history, callVars, extractVars,
                   step, no_archive, extracted, unwritable, mainPc,
                   audio_files, t_fail, archived>>

\* "Done!": the run that published ends
MainReturn ==
    /\ sharePc = "published"
    /\ sharePc' = "done"
    /\ history' = Append(history, [artifact |-> artifact, today |-> today,
                                   written |-> written])
    /\ exit' = "ok"
    /\ UNCHANGED <<raceVars, tokenVars, transVars, policy, source_entries, today, artifact, refined_entries, vault,
                   manual, written, run, callVars, extractVars,
                   step, no_archive, extracted, linkedin_md, unwritable, trace, mainPc,
                   audio_files, t_fail, archived>>

\* the next invocation, the same day or later
NextRun(td) ==
    /\ sharePc \in {"done", "aborted"}
    /\ run < MaxRuns
    /\ Ordinal(td) >= Ordinal(today)
    /\ today' = td
    /\ run' = run + 1
    /\ sharePc' = "extract"
    /\ refined_entries' = <<>>
    /\ written' = <<>>
    /\ trace' = <<>>
    /\ exit' = "none"
    /\ UNCHANGED <<raceVars, tokenVars, transVars, policy, source_entries, artifact, vault, manual, history, callVars,
                   extractVars, step, no_archive, extracted, linkedin_md, unwritable,
                   mainPc, audio_files, t_fail, archived>>

InitShare ==
    /\ CallIdle
    /\ MainIdle
    /\ ExtractIdle
    /\ RaceIdle
    /\ TransIdle
    /\ TokenIdle
    /\ policy \in {"shared_posts", "content_vault"}
    /\ source_entries \in EntrySeqs
    /\ today \in Todays
    /\ artifact = Absent
    /\ refined_entries = <<>>
    /\ vault = [w \in WeekLabels |-> <<>>]
    /\ manual = {}
    /\ written = <<>>
    /\ sharePc = "extract"
    /\ run = 1
    /\ history = <<>>

NextShare ==
    \/ MainExtract
    \/ MainGetApiKey
    \/ \E refined \in Artifacts \cup {<<>>} : MainRefine(refined)
    \/ ParseRefinedEntries
    \/ ParseSocialPosts
    \/ MergeToSharedPosts
    \/ SaveToContentVault
    \/ MainReturn
    \/ \E td \in Todays : NextRun(td)

SpecShare == InitShare /\ [][NextShare]_vars

(***************************************************************************)
(* A stage entered on its own, its input artifact present or not: the      *)
(* remote stages refine_for_twitter, generate_social_posts and             *)
(* prepare_linkedin_posts, and the result parsers of the publish stage     *)
(***************************************************************************)
InitRemoteStage ==
    /\ caller \in ShareCallers
    /\ force = FALSE /\ dry_run = FALSE
    /\ has_key \in BOOLEAN
    /\ groups = 1 /\ unit = 1
    /\ outFiles \in [1..1 -> {NoFile, OldFile}]
    /\ prereq \in BOOLEAN
    /\ callPc = "idle" /\ attempt = 0 /\ requests = 0
    /\ sleeps = <<>> /\ outcomes = <<>> /\ lastResp = NoResp /\ ret = FailedResult
    /\ success = 0 /\ skipped = 0 /\ failed = 0 /\ unitLog = <<>>
    /\ runPc = "start" /\ abortReason = "none"
    /\ ShareIdle
    /\ ExtractIdle
    /\ RaceIdle
    /\ TransIdle
    /\ TokenIdle
    /\ MainIdle

StageArtifacts == {Absent} \cup {JoinBlocks(bs) : bs \in SeqsUpTo(BlockAlphabet, 1)}

InitPublishStage ==
    /\ CallIdle
    /\ ExtractIdle
    /\ RaceIdle
    /\ TransIdle
    /\ TokenIdle
    /\ MainIdle
    /\ policy \in {"shared_posts", "content_vault"}
    /\ source_entries \in ParserEntrySeqs
    /\ today = T_Jan04
    /\ artifact \in StageArtifacts
    /\ refined_entries = <<>>
    /\ vault = [w \in WeekLabels |-> <<>>]
    /\ manual = {}
    /\ written = <<>>
    /\ sharePc = "parse"
    /\ run = 1
    /\ history = <<>>

InitStage == InitRemoteStage \/ InitPublishStage

NextStage ==
    \/ \E r \in Responses : CallOk(r)
    \/ \E r \in Responses : CallRetry(r)
    \/ \E r \in Responses : CallFail(r)
    \/ CallExhausted
    \/ StageEnter
    \/ StageEmpty
    \/ StageWrite
    \/ ParseRefinedEntries
    \/ ParseSocialPosts
    \/ MergeToSharedPosts
    \/ SaveToContentVault

SpecStage == InitStage /\ [][NextStage]_vars

(***************************************************************************)
(* pipeline.main: transcribe -> refine -> archive                          *)
(***************************************************************************)
\* Step 1, pipeline.py 85-107 with transcribe.transcribe_all: `fails` files fail
\* to transcribe, `added` new date groups appear in transcripts/. Under dry_run
\* transcribe_all counts every file skipped and writes no transcript.
PipelineTranscribe(fails, added) ==
    /\ mainPc = "transcribe"
    /\ fails \in 0..audio_files
    /\ Len(added) <= audio_files - fails
    /\ groups + Len(added) <= MaxGroups
    /\ IF step \notin {"all", "transcribe"}
       THEN /\ fails = 0 /\ added = <<>>
            /\ mainPc' = "refine"
            /\ UNCHANGED <<t_fail, groups, outFiles, trace, exit>>
       ELSE IF audio_files = 0
       THEN /\ fails = 0 /\ added = <<>>
            /\ IF step = "transcribe"
               THEN mainPc' = "done" /\ exit' = "ok"
               ELSE mainPc' = "refine" /\ UNCHANGED exit
            /\ UNCHANGED <<t_fail, groups, outFiles, trace>>
       ELSE IF dry_run
       THEN /\ fails = 0 /\ added = <<>>
            /\ mainPc' = "refine"
            /\ UNCHANGED <<t_fail, groups, outFiles, trace, exit>>
       ELSE /\ t_fail' = fails
            /\ groups' = groups + Len(added)
            /\ outFiles' = outFiles \o added
            /\ trace' = IF fails < audio_files THEN Append(trace, "transcribe") ELSE trace
            /\ mainPc' = "refine"
            /\ UNCHANGED exit
    /\ UNCHANGED <<raceVars, tokenVars, transVars, caller, force, dry_run, has_key, unit, prereq, callPc, callState,
                   success, skipped, failed, unitLog, runPc, abortReason,
                   shareVars, extractVars,
                   step, no_archive, extracted, linkedin_md, unwritable, audio_files,
                   archived>>

\* Step 2, pipeline.py 109-115: refine_all(force, dry_run) when --step allows it
PipelineRefine ==
    /\ mainPc = "refine"
    /\ IF step \in {"all", "refine"}
       THEN mainPc' = "refining" /\ runPc' = "start"
       ELSE mainPc' = "archive" /\ UNCHANGED runPc
    /\ UNCHANGED <<raceVars, tokenVars, transVars, caller, force, dry_run, has_key, groups, unit, outFiles, prereq,
                   callPc, callState, success, skipped, failed, unitLog, abortReason,
                   shareVars, extractVars,
                   step, no_archive, extracted, linkedin_md, unwritable, trace, exit,
                   audio_files, t_fail, archived>>

\* refine_all returned its counts, or get_api_key ended the process
PipelineRefined ==
    /\ mainPc = "refining"
    /\ runPc \in {"done", "aborted"}
    /\ IF runPc = "aborted"
       THEN mainPc' = "done" /\ exit' = "SystemExit: no api key"
       ELSE mainPc' = "archive" /\ UNCHANGED exit
    /\ UNCHANGED <<raceVars, tokenVars, transVars, callVars, shareVars, extractVars,
                   step, no_archive, extracted, linkedin_md, unwritable, trace,
                   audio_files, t_fail, archived>>

\* a step 3 that archives whatever the two steps reported (mutation of
\* PipelineArchive)
PipelineArchiveDespiteFailures ==
    /\ mainPc = "archive"
    /\ IF step = "all" /\ ~no_archive /\ audio_files > 0
       THEN IF ~dry_run
            THEN archived' = audio_files /\ trace' = Append(trace, "archive_move")
            ELSE archived' = audio_files /\ UNCHANGED trace
       ELSE UNCHANGED <<archived, trace>>
    /\ mainPc' = "done"
    /\ exit' = "ok"
    /\ UNCHANGED <<raceVars, tokenVars, transVars, callVars, shareVars, extractVars,
                   step, no_archive, extracted, linkedin_md, unwritable,
                   audio_files, t_fail>>

\* Step 3 and the summary, pipeline.py 117-134 with archive_files: files are
\* moved only when nothing failed and dry_run is off; the dry-run preview moves
\* nothing and still returns the number of files
PipelineArchive ==
    /\ mainPc = "archive"
    /\ IF step = "all" /\ ~no_archive /\ audio_files > 0
       THEN IF t_fail = 0 /\ failed = 0 /\ ~dry_run
            THEN archived' = audio_files /\ trace' = Append(trace, "archive_move")
            ELSE IF dry_run
                 THEN archived' = audio_files /\ UNCHANGED trace
                 ELSE UNCHANGED <<archived, trace>>
       ELSE UNCHANGED <<archived, trace>>
    /\ mainPc' = "done"
    /\ exit' = "ok"
    /\ UNCHANGED <<raceVars, tokenVars, transVars, callVars, shareVars, extractVars,
                   step, no_archive, extracted, linkedin_md, unwritable,
                   audio_files, t_fail>>

(***************************************************************************)
(* One invocation of a share driver under every combination of --dry-run,  *)
(* --step and presence of the credential                                   *)
(***************************************************************************)
\* a front-matter date the extractor's \d{4}-\d{2}-\d{2} accepts and the
\* calendar does not have
D_Bad == Date(2024, 13, 1)
DriverEntrySeqs == SeqsUpTo({Entry(D_Jan01), Entry(NoDate), Entry(D_Bad)}, MaxEntries)
\* what the remote service returns to a stage: nothing, or one or two blocks
StageResults == {<<>>, <<Heading(T_Foo), Body>>,
                 <<Heading(T_Foo), Body, Sep, Heading(T_Bar), Body>>}

InitMain ==
    /\ caller = "refine_for_twitter"
    /\ force = FALSE /\ dry_run \in BOOLEAN /\ has_key \in BOOLEAN
    /\ groups = 0 /\ unit = 1 /\ outFiles = <<>> /\ prereq = TRUE
    /\ callPc = "idle" /\ attempt = 0 /\ requests = 0
    /\ sleeps = <<>> /\ outcomes = <<>> /\ lastResp = NoResp /\ ret = FailedResult
    /\ success = 0 /\ skipped = 0 /\ failed = 0 /\ unitLog = <<>>
    /\ runPc = "done" /\ abortReason = "none"
    /\ ExtractIdle
    /\ RaceIdle
    /\ TransIdle
    /\ TokenIdle
    /\ policy \in {"shared_posts", "content_vault", "linkedin"}
    /\ step \in Steps(policy)
    /\ no_archive = FALSE
    /\ extracted = Absent
    /\ linkedin_md = Absent
    /\ unwritable = {}
    /\ trace = <<>>
    /\ exit = "none"
    /\ mainPc = "idle"
    /\ audio_files = 0 /\ t_fail = 0 /\ archived = 0
    /\ source_entries \in DriverEntrySeqs
    /\ today = T_Jan04
    /\ artifact = Absent
    /\ refined_entries = <<>>
    /\ vault = [w \in WeekLabels |-> <<>>]
    /\ manual = {}
    /\ written = <<>>
    /\ sharePc = "extract"
    /\ run = 1
    /\ history = <<>>

\* pipeline.py with every combination of its options
MaxAudio == 1

InitPipeline ==
    /\ caller = "refine_all"
    /\ force \in BOOLEAN /\ dry_run \in BOOLEAN /\ has_key \in BOOLEAN
    /\ groups \in 0..MaxGroups /\ unit = 1
    /\ outFiles \in [1..groups -> {NoFile, OldFile}]
    /\ prereq = TRUE
    /\ callPc = "idle" /\ attempt = 0 /\ requests = 0
    /\ sleeps = <<>> /\ outcomes = <<>> /\ lastResp = NoResp /\ ret = FailedResult
    /\ success = 0 /\ skipped = 0 /\ failed = 0 /\ unitLog = <<>>
    /\ runPc = "idle" /\ abortReason = "none"
    /\ ExtractIdle
    /\ RaceIdle
    /\ TransIdle
    /\ TokenIdle
    /\ ShareIdle
    /\ step \in {"all", "transcribe", "refine"}
    /\ no_archive \in BOOLEAN
    /\ extracted = Absent
    /\ linkedin_md = Absent
    /\ unwritable = {}
    /\ trace = <<>>
    /\ exit = "none"
    /\ mainPc = "transcribe"
    /\ audio_files \in 0..MaxAudio /\ t_fail = 0 /\ archived = 0

InitDrivers == InitMain \/ InitPipeline

NextMain ==
    \/ \E fails \in 0..MaxAudio, added \in SeqsUpTo({NoFile, OldFile}, MaxAudio) :
          PipelineTranscribe(fails, added)
    \/ PipelineRefine
    \/ PipelineRefined
    \/ PipelineArchive
    \/ \E r \in Responses : CallOk(r)
    \/ \E r \in Responses : CallRetry(r)
    \/ \E r \in Responses : CallFail(r)
    \/ CallExhausted
    \/ RefineAllEnter
    \/ RefineAllSkipExisting
    \/ RefineAllDryRun
    \/ RefineAllCall
    \/ RefineAllFailed
    \/ RefineAllWrite
    \/ RefineAllReturn
    \/ MainExtract
    \/ MainDryRun
    \/ MainStepExtract
    \/ MainGetApiKey
    \/ \E refined \in StageResults : MainRefine(refined)
    \/ \E result \in StageResults : MainLinkedin(result)
    \/ ParseRefinedEntries
    \/ ParseSocialPosts
    \/ MergeRaisesValueError
    \/ MergeToSharedPosts
    \/ SaveToContentVault
    \/ MainReturn

SpecMain == InitDrivers /\ [][NextMain]_vars

(***************************************************************************)
(* The extractor on its own                                                *)
(***************************************************************************)
InitExtract ==
    /\ CallIdle
    /\ MainIdle
    /\ policy = "shared_posts"
    /\ source_entries = <<>>
    /\ today = T_Jan04
    /\ artifact = Absent
    /\ refined_entries = <<>>
    /\ vault = [w \in WeekLabels |-> <<>>]
    /\ manual = {}
    /\ written = <<>>
    /\ sharePc = "scan"
    /\ run = 1
    /\ history = <<>>
    /\ input_dir \in (SUBSET FileNames) \cup {NoDir}
    /\ md_files = <<>>
    /\ cur = NoFileRead
    /\ RaceIdle
    /\ TransIdle
    /\ TokenIdle

NextExtract ==
    \/ ExtractScan
    \/ ReadFile
    \/ ExtractFile
    \/ ExtractFileDone
    \/ ExtractReturn

SpecExtract == InitExtract /\ [][NextExtract]_vars

(***************************************************************************)
(* The extractors of the three pipelines on notes with metadata fields     *)
(***************************************************************************)
InitTag ==
    /\ CallIdle
    /\ MainIdle
    /\ policy \in {"shared_posts", "content_vault", "linkedin"}
    /\ source_entries = <<>>
    /\ today = T_Jan04
    /\ artifact = Absent
    /\ refined_entries = <<>>
    /\ vault = [w \in WeekLabels |-> <<>>]
    /\ manual = {}
    /\ written = <<>>
    /\ sharePc = "scan"
    /\ run = 1
    /\ history = <<>>
    /\ input_dir \in (SUBSET FileNames) \cup {NoDir}
    /\ md_files = <<>>
    /\ cur = NoFileRead
    /\ RaceIdle
    /\ TransIdle
    /\ TokenIdle

NextTag ==
    \/ ExtractScan
    \/ ReadNote
    \/ ExtractFile
    \/ ExtractFileDone
    \/ ExtractReturn

SpecTag == InitTag /\ [][NextTag]_vars

(***************************************************************************)
(* The remote client with its callers                                      *)
(***************************************************************************)
InitCall ==
    /\ caller \in Callers
    /\ force \in BOOLEAN
    /\ dry_run \in BOOLEAN
    /\ has_key \in BOOLEAN
    /\ groups \in 0..MaxGroups
    /\ caller \in ShareCallers => (groups = 1 /\ ~force /\ ~dry_run)
    /\ unit = 1
    /\ outFiles \in [1..groups -> {NoFile, OldFile}]
    /\ prereq \in BOOLEAN
    /\ caller = "refine_all" => prereq
    /\ callPc = "idle"
    /\ attempt = 0
    /\ requests = 0
    /\ sleeps = <<>>
    /\ outcomes = <<>>
    /\ lastResp = NoResp
    /\ ret = FailedResult
    /\ success = 0
    /\ skipped = 0
    /\ failed = 0
    /\ unitLog = <<>>
    /\ runPc = "start"
    /\ abortReason = "none"
    /\ ShareIdle
    /\ ExtractIdle
    /\ RaceIdle
    /\ TransIdle
    /\ TokenIdle
    /\ MainIdle

NextCall ==
    \/ \E r \in Responses : CallOk(r)
    \/ \E r \in Responses : CallRetry(r)
    \/ \E r \in Responses : CallFail(r)
    \/ CallExhausted
    \/ RefineAllEnter
    \/ RefineAllSkipExisting
    \/ RefineAllDryRun
    \/ RefineAllCall
    \/ RefineAllFailed
    \/ RefineAllWrite
    \/ RefineAllReturn
    \/ StageEnter
    \/ StageEmpty
    \/ StageWrite

SpecCall == InitCall /\ [][NextCall]_vars

\* The same system with the guarantee that a step that can be taken is taken:
\* every requests.post returns or times out after 300 s, every time.sleep ends,
\* and the callers are straight-line code between the calls.
SpecCallLive == InitCall /\ [][NextCall]_vars /\ WF_vars(NextCall)

(***************************************************************************)
(* Properties of the remote client and its callers (checked under SpecCall)*)
(***************************************************************************)
AllTransientStatus ==
    outcomes # <<>> /\ \A i \in DOMAIN outcomes : outcomes[i] = "retryable_status"

\* C3: a call whose every response carried a status of {429, 500, 502, 503, 529}
\* made exactly MAX_RETRIES requests, slept RETRY_BASE_DELAY * 2^k after attempt k
\* (each delay at least double the one before) and returned the failed result.
C3_RetryBound ==
    (callPc = "returned" /\ AllTransientStatus) =>
        /\ requests = MAX_RETRIES
        /\ Len(sleeps) = MAX_RETRIES
        /\ \A k \in 0..(MAX_RETRIES - 1) : sleeps[k + 1] = RETRY_BASE_DELAY * (2 ^ k)
        /\ \A k \in 2..Len(sleeps) : sleeps[k] >= 2 * sleeps[k - 1]
        /\ ret = FailedResult

C3_Witness ==
    callPc = "returned" /\ AllTransientStatus /\ Len(outcomes) = MAX_RETRIES

\* C9: a status outside 200 and the retryable set, or a request error that is no
\* timeout, ends the call at that attempt: it is the last request, no sleep
\* follows it, and the call returns the failed result.
C9_NonRetryable ==
    \A i \in DOMAIN outcomes :
        outcomes[i] \in {"other_status", "request_error"} =>
            /\ i = Len(outcomes)
            /\ callPc # "loop"
            /\ requests = i
            /\ Len(sleeps) = i - 1
            /\ ret = FailedResult

C9_Witness ==
    /\ callPc = "returned"
    /\ Len(outcomes) = 2
    /\ outcomes[1] = "retryable_status"
    /\ outcomes[2] = "other_status"

\* C7: in every pipeline variant, a group whose call ended with a non-empty text
\* and stop_reason "max_tokens" is counted a success and the text persisted for it
\* ends with the truncation marker.
C7_TruncationMarked ==
    \A i \in DOMAIN unitLog :
        (unitLog[i].stop = "max_tokens" /\ unitLog[i].text # NoText) =>
            /\ unitLog[i].how = "success"
            /\ outFiles[i][Len(outFiles[i])] = TruncationMarker

C18_TrailingRecordsForMissingBlocks ==
    (sharePc = "parsed" /\ Len(Blocks(artifact)) < Len(source_entries)) =>
        /\ Len(refined_entries) = Len(source_entries)
        /\ \A k \in (Len(Blocks(artifact)) + 1)..Len(source_entries) :
               refined_entries[k].source_date = today

\* C18 (amended): the parser never makes a record without a block. With fewer
\* blocks than entries it returns at most one record per block, so the trailing
\* entries get no record; the current date goes to the records of the blocks
\* beyond the last entry, when there are more blocks than entries.
C18_NoRecordWithoutBlock ==
    sharePc = "parsed" =>
        LET blocks == Blocks(artifact)
        IN  /\ Len(refined_entries) <= Len(blocks)
            /\ Len(blocks) < Len(source_entries) =>
                   Len(refined_entries) < Len(source_entries)
            /\ (\A b \in DOMAIN blocks : TitleMatches(blocks[b])) =>
                   \A k \in DOMAIN refined_entries :
                       k > Len(source_entries) => refined_entries[k].source_date = today

\* one block for two entries gave one record
C18_Witness ==
    /\ sharePc = "parsed"
    /\ Len(source_entries) = 2
    /\ Len(Blocks(artifact)) = 1
    /\ Len(refined_entries) = 1

\* C20 as claimed: the records of the publish stage are a function of the 02
\* artifact alone: whatever entry list the earlier stages left in memory, the
\* same artifact gives the same records (title, content and source_date).
C20_FunctionOfArtifactAlone ==
    sharePc = "parsed" =>
        \A es \in ParserEntrySeqs : ParseBlocks(artifact, es, today) = refined_entries

\* C20 (amended): the number of records, their titles and their content are a
\* function of the 02 artifact alone; source_date is not: the record of the
\* k-th block carries the source_date of the k-th entry the extract stage of
\* the same run left in memory, or the current date when that entry has none
\* or does not exist.
C20_OnlyDateFromMemory ==
    sharePc = "parsed" =>
        /\ \A es \in ParserEntrySeqs : \A td \in Todays :
               LET other == ParseBlocks(artifact, es, td)
               IN  /\ Len(other) = Len(refined_entries)
                   /\ \A k \in DOMAIN other :
                          /\ other[k].title = refined_entries[k].title
                          /\ other[k].content = refined_entries[k].content
        /\ (\A b \in DOMAIN Blocks(artifact) : TitleMatches(Blocks(artifact)[b])) =>
               \A k \in DOMAIN refined_entries :
                   refined_entries[k].source_date =
                       IF k <= Len(source_entries) /\ source_entries[k].source_date # NoDate
                       THEN source_entries[k].source_date
                       ELSE today

\* two titled blocks parsed with entries in memory of which the second alone
\* is dated: the second record carries a date that 02 does not hold
C20_Witness ==
    /\ sharePc = "parsed"
    /\ Len(refined_entries) = 2
    /\ Len(source_entries) = 2
    /\ source_entries[1].source_date = NoDate
    /\ refined_entries[1].source_date = today
    /\ refined_entries[2].source_date = D_Jan01
    /\ policy = "shared_posts"

\* C4 as claimed: when the artifact has as many blocks as there are entries, the
\* k-th record carries the source_date of the k-th entry.
C4_PositionalDate ==
    (sharePc = "parsed" /\ Len(Blocks(artifact)) = Len(source_entries)) =>
        \A k \in DOMAIN refined_entries :
            refined_entries[k].source_date = source_entries[k].source_date

\* C4 (amended): when the artifact has as many blocks as there are entries and every
\* block begins with a "## " title line, there are as many records as entries and the
\* k-th record carries the source_date of the k-th entry, or the current date when
\* that source_date is empty.
C4_PositionalDateOrToday ==
    (/\ sharePc = "parsed"
     /\ Len(Blocks(artifact)) = Len(source_entries)
     /\ \A b \in DOMAIN Blocks(artifact) : TitleMatches(Blocks(artifact)[b])) =>
        /\ Len(refined_entries) = Len(source_entries)
        /\ \A k \in DOMAIN refined_entries :
               refined_entries[k].source_date =
                   IF source_entries[k].source_date = NoDate
                   THEN today
                   ELSE source_entries[k].source_date

C4_Witness ==
    /\ sharePc = "parsed"
    /\ Len(Blocks(artifact)) = 2
    /\ Len(source_entries) = 2
    /\ source_entries[1].source_date = NoDate
    /\ source_entries[2].source_date = D_Jan01
    /\ Len(refined_entries) = 2
    /\ refined_entries[1].source_date = today
    /\ refined_entries[2].source_date = D_Jan01

(***************************************************************************)
(* Publish into weekly files                                               *)
(***************************************************************************)
\* C2 as claimed: after any number of merge_to_shared_posts runs no weekly file
\* holds two "## " heading lines with the same title text.
C2_NoDuplicateHeadings ==
    \A w \in DOMAIN vault :
        \A i, j \in DOMAIN vault[w] :
            (i < j /\ vault[w][i].k = "head" /\ vault[w][j].k = "head"
                   /\ vault[w][i].t # <<>>)
                => vault[w][i].t # vault[w][j].t

HeadingCount(ls, t) == Cardinality({i \in DOMAIN ls : ls[i] = Heading(t)})

HasHeading(ls, t) == HeadingCount(ls, t) > 0

\* the records of recs whose title has no heading line in the file `ls`
RECURSIVE NotYetIn(_, _)
NotYetIn(recs, ls) ==
    IF recs = <<>> THEN <<>>
    ELSE (IF HasHeading(ls, recs[1].title) THEN <<>> ELSE <<recs[1]>>)
         \o NotYetIn(Tail(recs), ls)

\* C6: in a merge_to_shared_posts call, a record whose title already has a
\* "## title" heading in its weekly file adds nothing to the file: what the file
\* gains is the separator and the other records of that week, those whose title it
\* does not hold yet, in their order; it gains no heading of the skipped title unless
\* the content of an appended record holds such a line.
C6_SkipExistingTitle ==
    [][(sharePc = "parsed" /\ policy = "shared_posts" /\ sharePc' = "published") =>
        \A w \in DOMAIN vault :
            LET recs == InWeek(refined_entries, w)
                others == NotYetIn(recs, vault[w])
            IN  (\E i \in DOMAIN recs : HasHeading(vault[w], recs[i].title)) =>
                  /\ vault'[w] = IF others = <<>>
                                 THEN vault[w]
                                 ELSE RStrip(vault[w]) \o Separator \o JoinEntries(others)
                  /\ \A i \in DOMAIN recs :
                        (/\ HasHeading(vault[w], recs[i].title)
                         /\ \A o \in DOMAIN others :
                                HeadingCount(others[o].content, recs[i].title) = 0)
                          => HeadingCount(vault'[w], recs[i].title)
                                = HeadingCount(vault[w], recs[i].title)
      ]_vars

\* the file held Foo, the call brought Bar and Foo: Bar alone was appended
C6_Witness ==
    /\ sharePc = "published"
    /\ policy = "shared_posts"
    /\ refined_entries = <<Rec(T_Bar, <<Body>>, D_Jan01), Rec(T_Foo, <<Body>>, D_Jan01)>>
    /\ written = <<IsoWeekLabel(D_Jan01)>>
    /\ vault[IsoWeekLabel(D_Jan01)] =
           FormatEntry(Rec(T_Foo, <<Body>>, D_Jan01)) \o Separator
               \o FormatEntry(Rec(T_Bar, <<Body>>, D_Jan01))

(***************************************************************************)
(* Pipeline runs                                                           *)
(***************************************************************************)
\* C1 as claimed, read in its most favourable sense: a run that follows a publishing
\* run on unchanged source documents, on the same day and with the same refinement
\* artifact, writes nothing: the publish step returns an empty list of paths.
C1_SecondRunWritesNothing ==
    \A i \in 2..Len(history) :
        (history[i].artifact = history[i - 1].artifact
            /\ history[i].today = history[i - 1].today)
          => history[i].written = <<>>

(***************************************************************************)
(* Extractor                                                               *)
(***************************************************************************)
\* the "## " segments of a document: the pieces of its content (what follows the
\* front matter) that start at a heading line
HeadedSegments(lines) == SelectSeq(EntriesRaw(ContentOfFile(lines)), StartsWithMarker)

SegTagged(seg) == \E i \in DOMAIN seg : seg[i].k = "tag"

SegTitled(seg) == seg[1].k = "headws" \/ (seg[1].k = "head" /\ seg[1].t # <<>>)

SegBody(seg) == BodyOf(Strip(seg))

TaggedWithBody(seg) == SegTagged(seg) /\ SegBody(seg) # <<>>

TaggedTitledWithBody(seg) == SegTitled(seg) /\ TaggedWithBody(seg)

\* the step in which the file `cur` has been parsed
FileParsed ==
    sharePc = "files" /\ md_files # <<>> /\ cur.name = Head(md_files)
        /\ md_files' = Tail(md_files)

\* C10 as claimed: a file adds one Entry for each "## " segment that carries the tag
\* and has a non-empty body, and none for any other segment.
C10_OnePerTaggedSegment ==
    [][FileParsed =>
        Len(source_entries') = Len(source_entries)
            + Len(SelectSeq(HeadedSegments(cur.lines), TaggedWithBody))]_vars

\* C10 (amended): a file adds one Entry for each "## " segment that carries the tag,
\* has a non-empty body and whose heading line has a character after "## ", with that
\* segment's title and body, in the order of the segments, and none for any other
\* segment; the entries of a file follow the entries of all files whose name sorts
\* before it.
C10_OnePerTaggedTitledSegment ==
    [][FileParsed =>
        LET picked == SelectSeq(HeadedSegments(cur.lines), TaggedTitledWithBody)
            n == Len(source_entries)
        IN  /\ Len(source_entries') = n + Len(picked)
            /\ SubSeq(source_entries', 1, n) = source_entries
            /\ \A k \in DOMAIN picked :
                   /\ source_entries'[n + k].title = picked[k][1].t
                   /\ source_entries'[n + k].body = SegBody(picked[k])
                   /\ source_entries'[n + k].source_file = cur.name
            /\ \A i \in 1..n : source_entries[i].source_file.rank < cur.name.rank
      ]_vars

\* two files; the second has three segments of which the 1st and the 3rd are tagged
C10_Witness ==
    /\ sharePc = "files"
    /\ md_files = <<>>
    /\ input_dir = FileNames
    /\ cur = [name |-> F_Plain,
              lines |-> <<Heading(T_Bar), TagLine, FmLine, BodyY,
                          Heading(T_Baz), MetaLine, Body,
                          Heading(T_Foo), TagLine, Body>>]
    /\ Len(source_entries) = 3
    /\ source_entries[1].source_file = F_Dated
    /\ source_entries[2] = [title |-> T_Bar, body |-> <<BodyY>>,
                            source_file |-> F_Plain, source_date |-> NoDate]
    /\ source_entries[3] = [title |-> T_Foo, body |-> <<Body>>,
                            source_file |-> F_Plain, source_date |-> NoDate]

(***************************************************************************)
(* Tag detection                                                           *)
(***************************************************************************)
\* the value of a "标签" field of the file holds the text #Share
FieldHoldsShareToken(lines) ==
    \E i \in DOMAIN lines :
        /\ lines[i].k = "fields"
        /\ \E j \in DOMAIN lines[i].f :
               /\ lines[i].f[j].label = TagLabel
               /\ \E n \in DOMAIN lines[i].f[j].value :
                      IsPrefix(ShareToken, lines[i].f[j].value[n])

\* C11 as claimed: in each of the three extractors the segment of a note is
\* extracted exactly when the value of its "标签" field holds #Share (anywhere in the
\* value), on a pipe-delimited line and on a line of its own.
C11_TagDetection ==
    (sharePc = "files" /\ cur # NoFileRead /\ \A i \in DOMAIN md_files : md_files[i] # cur.name)
        => ((\E e \in DOMAIN source_entries : source_entries[e].source_file = cur.name)
               <=> FieldHoldsShareToken(cur.lines))

\* the heading lines of a file, in order (what re.findall(r"^## (.+)$") sees)
HeadingLines(ls) == SelectSeq(ls, LAMBDA l : l.k = "headws" \/ (l.k = "head" /\ l.t # <<>>))

StartsWith(ls, p) == Len(p) <= Len(ls) /\ SubSeq(ls, 1, Len(p)) = p

\* C17: a weekly file only grows at its end. After every merge_to_shared_posts
\* call each file still starts with all it held before the call (trailing blank
\* lines apart), so every heading and its content is kept in place and in
\* order, and every heading the call adds comes after all of them.
C17_AppendOnly ==
    [][(sharePc = "parsed" /\ policy = "shared_posts") =>
        \A w \in DOMAIN vault :
            /\ StartsWith(vault'[w], DropTrailingBlank(vault[w]))
            /\ StartsWith(HeadingLines(vault'[w]), HeadingLines(vault[w]))
      ]_vars

\* the second call added "## Bar" below the "## Foo" the first call had written
C17_Witness ==
    /\ policy = "shared_posts" /\ run = 2 /\ sharePc = "published"
    /\ refined_entries = <<Rec(T_Bar, <<Body>>, D_Jan01)>>
    /\ written = <<IsoWeekLabel(D_Jan01)>>
    /\ HeadingLines(vault[IsoWeekLabel(D_Jan01)]) = <<Heading(T_Foo), Heading(T_Bar)>>

ListedPaths == {written'[i] : i \in DOMAIN written'}

\* C19: the list a publish call returns holds a path exactly when the call wrote
\* that file: a weekly file (a content-vault file) is listed if and only if the
\* call changed (created) it, each once; a bucket without new entries keeps its
\* content and is not listed; the list is empty exactly when nothing was written.
C19_WrittenPathsReport ==
    [][(sharePc = "parsed" /\ sharePc' = "published") =>
        /\ \A w \in DOMAIN vault : (w \in ListedPaths) <=> (vault'[w] # vault[w])
        /\ \A w \in DOMAIN vault :
               NotYetIn(InWeek(refined_entries, w), vault[w]) = <<>> =>
                   (vault'[w] = vault[w] /\ w \notin ListedPaths)
        /\ manual \subseteq manual'
        /\ ListedPaths = IF policy = "shared_posts"
                         THEN {w \in DOMAIN vault : vault'[w] # vault[w]}
                         ELSE {f.path : f \in manual' \ manual}
        /\ Cardinality(ListedPaths) = Len(written')
        /\ (written' = <<>>) <=> (vault' = vault /\ manual' = manual)
      ]_vars

\* the second call skipped week 1, which held "## Foo", and wrote week 2 alone
C19_Witness ==
    /\ policy = "shared_posts" /\ run = 2 /\ sharePc = "published"
    /\ refined_entries = <<Rec(T_Foo, <<Body>>, D_Jan01), Rec(T_Foo, <<Body>>, D_Jan08)>>
    /\ written = <<IsoWeekLabel(D_Jan08)>>
    /\ HeadingLines(vault[IsoWeekLabel(D_Jan01)]) = <<Heading(T_Foo)>>

(***************************************************************************)
(* Properties of the drivers (checked under SpecMain)                      *)
(***************************************************************************)
RemoteCalls == {i \in DOMAIN trace : trace[i] \in {"call:refine", "call:linkedin"}}

NoDestinationWritten ==
    /\ \A w \in DOMAIN vault : vault[w] = <<>>
    /\ manual = {}
    /\ success = 0
    /\ \A i \in DOMAIN trace : trace[i] # "archive_move"

EndedAbnormally == sharePc = "aborted" \/ exit \notin {"none", "ok"}

\* C12: a run with the dry-run flag makes no remote-service request, writes no
\* destination store (weekly files, content-vault files, output/<date>.md,
\* archive moves) and does not end abnormally, whatever --step and whether or
\* not the credential is set.
C12_DryRunSafe ==
    dry_run =>
        /\ RemoteCalls = {} /\ callPc = "idle" /\ requests = 0
        /\ NoDestinationWritten
        /\ ~EndedAbnormally

ShareRunEnded == sharePc \in {"done", "aborted"}
PipelineRunEnded == mainPc = "done"
NoKeyExit == exit = "SystemExit: no api key"

\* C14 as stated: without the credential a run that is not a dry run ends with
\* the fatal diagnostic at startup, before the extract stage has run or written
\* 01_extracted.md and before any remote call.
C14_CredentialAtStartup ==
    (~dry_run /\ ~has_key) =>
        /\ extracted = Absent
        /\ \A i \in DOMAIN trace : trace[i] # "write_extracted"
        /\ RemoteCalls = {} /\ callPc = "idle"
        /\ (ShareRunEnded \/ PipelineRunEnded) => NoKeyExit

\* C14, amended: the credential is looked at when the first remote stage is
\* about to start. Without it a run that is not a dry run first extracts and
\* writes 01_extracted.md, then ends with the fatal diagnostic before any remote
\* call, before any 02/03 artifact and before any write of a weekly file, a
\* content-vault file or output/<date>.md; a run that extracts nothing, or is
\* cut by --step extract, or (pipeline.py) finds no transcript to refine, ends
\* normally without the credential, and only such a pipeline.py run archives.
C14_CredentialBeforeFirstRemoteStage ==
    (~dry_run /\ ~has_key) =>
        /\ RemoteCalls = {} /\ callPc = "idle" /\ requests = 0
        /\ artifact = Absent /\ linkedin_md = Absent
        /\ \A w \in DOMAIN vault : vault[w] = <<>>
        /\ manual = {}
        /\ success = 0
        /\ (\E i \in DOMAIN trace : trace[i] = "archive_move") => groups = 0
        /\ (NoKeyExit /\ mainPc = "idle") =>
               /\ extracted = WriteExtracted(source_entries)
               /\ trace = <<"write_extracted", "get_api_key">>
        /\ ShareRunEnded =>
               IF source_entries = <<>> \/ step = "extract"
               THEN sharePc = "done" /\ exit = "ok"
               ELSE sharePc = "aborted" /\ NoKeyExit
        /\ PipelineRunEnded =>
               IF groups = 0 \/ step = "transcribe"
               THEN exit = "ok"
               ELSE NoKeyExit

\* a full run of a share driver has ended on the missing credential, after it
\* wrote 01_extracted.md
C14_Witness ==
    /\ ~dry_run /\ ~has_key /\ step = "all"
    /\ sharePc = "aborted" /\ NoKeyExit
    /\ extracted # Absent
    /\ trace = <<"write_extracted", "get_api_key">>

\* C16: --step cuts the run of a share driver after the named stage.
\* '--step extract' makes no remote call, asks for no credential and writes
\* neither a later artifact nor a destination; '--step refine' / 'generate' /
\* 'twitter' makes the remote call of that stage only, exactly once in a run
\* that ends normally past the extract stage, and no later stage's call,
\* artifact or destination write.
C16_StepTruncates ==
    mainPc = "idle" =>
        /\ step = "extract" =>
               /\ RemoteCalls = {}
               /\ \A i \in DOMAIN trace : trace[i] = "write_extracted"
               /\ artifact = Absent /\ linkedin_md = Absent
               /\ refined_entries = <<>>
               /\ NoDestinationWritten
        /\ step \in {"refine", "generate", "twitter"} =>
               /\ \A i \in RemoteCalls : trace[i] = "call:refine"
               /\ Cardinality(RemoteCalls) <= 1
               /\ linkedin_md = Absent
               /\ refined_entries = <<>>
               /\ NoDestinationWritten
               /\ (sharePc = "done" /\ ~dry_run /\ source_entries # <<>>) =>
                      /\ Cardinality(RemoteCalls) = 1
                      /\ artifact # Absent

\* share_to_linkedin --step twitter has ended after its one remote call
C16_Witness ==
    /\ policy = "linkedin" /\ step = "twitter" /\ ~dry_run
    /\ sharePc = "done" /\ exit = "ok"
    /\ trace = <<"write_extracted", "get_api_key", "call:refine", "write_02">>
    /\ artifact # Absent /\ linkedin_md = Absent

(***************************************************************************)
(* Properties of the publish step on a failing destination (checked under  *)
(* SpecPublishFail)                                                        *)
(***************************************************************************)
\* C15: a stage completes all of its writes or the run aborts with none of that
\* stage's writes applied: a publish call that ends abnormally leaves every
\* weekly file and the content vault as they were before the call.
C15_PublishAllOrNothing ==
    [][(sharePc = "parsed" /\ sharePc' = "aborted") => UNCHANGED <<vault, manual>>]_vars

(***************************************************************************)
(* Properties of a stage entered on its own (checked under SpecStage)      *)
(***************************************************************************)
\* a remote stage is about to run and the file it reads does not exist
RemoteStageWithoutInput ==
    caller \in ShareCallers /\ runPc = "start" /\ has_key /\ ~prereq

\* the result parser is about to run and the 02 artifact does not exist
ParserWithoutInput == sharePc = "parse" /\ artifact = Absent

\* C13: a stage entered while the artifact of the previous stage does not exist
\* ends the run with the missing-artifact diagnostic, makes no remote call and
\* writes no artifact and no destination file.
C13_MissingPrerequisiteFatal ==
    [][ /\ RemoteStageWithoutInput =>
            /\ runPc' = "aborted" /\ abortReason' = "missing_artifact"
            /\ callPc' = "idle" /\ requests' = 0 /\ outcomes' = <<>>
            /\ outFiles' = outFiles
            /\ UNCHANGED <<vault, manual, written>>
        /\ ParserWithoutInput =>
            /\ sharePc' = "aborted" /\ exit' = "SystemExit: 02 artifact not found"
            /\ callPc' = "idle" /\ requests' = 0
            /\ UNCHANGED <<artifact, refined_entries, vault, manual, written, outFiles>>
      ]_vars

\* a remote stage has ended on its missing input
C13_Witness ==
    /\ caller \in ShareCallers /\ has_key /\ ~prereq
    /\ runPc = "aborted" /\ abortReason = "missing_artifact"
    /\ requests = 0 /\ outFiles[1] = NoFile

(***************************************************************************)
(* Publish order                                                           *)
(***************************************************************************)
\* the records of recs at the positions of S, in the order of recs
RECURSIVE PickInOrder(_, _, _)
PickInOrder(recs, S, i) ==
    IF i > Len(recs) THEN <<>>
    ELSE (IF i \in S THEN <<recs[i]>> ELSE <<>>) \o PickInOrder(recs, S, i + 1)

PathsOf(posts) == [i \in DOMAIN posts |-> PathOf(posts[i])]

\* C21: what one publish call adds keeps the order of the records it was given:
\* a weekly file that changes gains, after what it held, the formatted records of
\* some positions of the input that fall in that week, in increasing position;
\* the content vault gains the files of some positions and the returned list
\* names them in increasing position.
C21_PublishOrder ==
    [][(sharePc = "parsed" /\ sharePc' = "published") =>
        /\ policy = "shared_posts" =>
              \A w \in DOMAIN vault :
                  vault'[w] # vault[w] =>
                      \E S \in (SUBSET DOMAIN refined_entries) \ {{}} :
                          /\ \A i \in S : IsoWeekLabel(refined_entries[i].source_date) = w
                          /\ vault'[w] =
                                 (IF vault[w] # <<>> THEN RStrip(vault[w]) \o Separator
                                  ELSE <<>>)
                                 \o JoinEntries(PickInOrder(refined_entries, S, 1))
        /\ policy = "content_vault" =>
              \E S \in SUBSET DOMAIN refined_entries :
                  LET posts == PickInOrder(refined_entries, S, 1)
                  IN  /\ written' = PathsOf(posts)
                      /\ manual' = manual \cup
                             {[path |-> PathOf(posts[i]), lines |-> FormatPost(posts[i])] :
                                  i \in DOMAIN posts}
      ]_vars

\* Bar then Foo of one week, given to an empty vault, stand in the file as Bar, Foo
C21_Witness ==
    /\ sharePc = "published"
    /\ policy = "shared_posts"
    /\ run = 1
    /\ refined_entries = <<Rec(T_Bar, <<Body>>, D_Jan01), Rec(T_Foo, <<Body>>, D_Jan01)>>
    /\ vault[IsoWeekLabel(D_Jan01)] =
           FormatEntry(Rec(T_Bar, <<Body>>, D_Jan01)) \o Separator
               \o FormatEntry(Rec(T_Foo, <<Body>>, D_Jan01))

(***************************************************************************)
(* The retry loop: sleeps and mixed outcomes                               *)
(***************************************************************************)
\* C22 as claimed: every backoff sleep of a call is followed by a further request
\* of that call, so a call that returned slept fewer times than it posted.
C22_SleepOnlyBetweenAttempts ==
    (callPc = "returned" /\ requests > 0) => Len(sleeps) < requests

RetriedOutcomes ==
    {i \in DOMAIN outcomes : outcomes[i] \in {"timeout", "retryable_status"}}

\* what holds of the loop at every moment, whatever each request met
MixedOutcomesBound ==
    /\ requests = Len(outcomes)
    /\ requests <= MAX_RETRIES
    /\ attempt = Cardinality(RetriedOutcomes)
    /\ \A i \in DOMAIN outcomes :
           outcomes[i] = "ok" =>
               /\ i = Len(outcomes)
               /\ callPc # "loop"
               /\ ret.text = lastResp.text
    /\ ret.text # NoText =>
           (outcomes # <<>> /\ outcomes[Len(outcomes)] = "ok")

\* C23: whatever each request meets (200, retryable status, timeout, other
\* status, other request error), the call makes at most MAX_RETRIES requests and
\* then returns; timeouts and retryable statuses advance the same attempt
\* counter; a 200 response is the last request and its text is what is returned;
\* the returned text is non-empty only if the last request received a 200.
C23_MixedOutcomes ==
    /\ []MixedOutcomesBound
    /\ (callPc = "loop") ~> (callPc = "returned")

\* a timeout, then a retryable status, then a 200 with text
C23_Witness ==
    /\ callPc = "returned"
    /\ outcomes = <<"timeout", "retryable_status", "ok">>
    /\ attempt = 2
    /\ ret.text = SomeText

(***************************************************************************)
(* Result parser: the position that dates a record                         *)
(***************************************************************************)
\* the indexes, among the non-empty blocks, of the blocks that begin with a title
RECURSIVE TitledIndexFrom(_, _)
TitledIndexFrom(blocks, i) ==
    IF i > Len(blocks) THEN <<>>
    ELSE (IF TitleMatches(blocks[i]) THEN <<i>> ELSE <<>>)
         \o TitledIndexFrom(blocks, i + 1)

TitledIndex == TitledIndexFrom(Blocks(artifact), 1)

\* C24 as claimed: with more blocks than entries parsing returns, the record of a
\* block beyond the last entry carries the current date, and the record of a
\* block within the entries carries the source_date of the entry at its position.
C24_OverrunKeepsEntryDate ==
    (sharePc = "parsed" /\ Len(Blocks(artifact)) > Len(source_entries)) =>
        /\ Len(refined_entries) = Len(TitledIndex)
        /\ \A k \in DOMAIN refined_entries :
               refined_entries[k].source_date =
                   IF TitledIndex[k] > Len(source_entries)
                   THEN today
                   ELSE source_entries[TitledIndex[k]].source_date

\* C24 (amended): with more blocks than entries parsing returns, the record of a
\* block beyond the last entry carries the current date, and the record of a
\* block within the entries carries the source_date of the entry at the block's
\* position, or the current date when that source_date is empty.
C24_OverrunDatedOrToday ==
    (sharePc = "parsed" /\ Len(Blocks(artifact)) > Len(source_entries)) =>
        /\ Len(refined_entries) = Len(TitledIndex)
        /\ \A k \in DOMAIN refined_entries :
               refined_entries[k].source_date =
                   IF TitledIndex[k] > Len(source_entries)
                   THEN today
                   ELSE IF source_entries[TitledIndex[k]].source_date = NoDate
                        THEN today
                        ELSE source_entries[TitledIndex[k]].source_date

\* two titled blocks for one dated entry: the second record is dated today
C24_Witness ==
    /\ sharePc = "parsed"
    /\ source_entries = <<Entry(D_Jan01)>>
    /\ Len(Blocks(artifact)) = 2
    /\ Len(refined_entries) = 2
    /\ refined_entries[1].source_date = D_Jan01
    /\ refined_entries[2].source_date = today

\* C25 as claimed: every record carries the source_date of the entry whose index
\* is the index of the record's block among all non-empty blocks, the blocks
\* skipped for want of a title included; a skipped block gives no record.
C25_DatedByRawBlockIndex ==
    sharePc = "parsed" =>
        /\ Len(refined_entries) = Len(TitledIndex)
        /\ \A k \in DOMAIN refined_entries :
               /\ TitledIndex[k] <= Len(source_entries)
               /\ refined_entries[k].source_date =
                      source_entries[TitledIndex[k]].source_date

\* C25 (amended): a skipped block gives no record, and every record carries the
\* source_date of the entry whose index is the index of the record's block among
\* all non-empty blocks, skipped ones included, when that entry exists and its
\* source_date is not empty; it carries the current date otherwise.
C25_DatedByRawBlockIndexOrToday ==
    sharePc = "parsed" =>
        /\ Len(refined_entries) = Len(TitledIndex)
        /\ \A k \in DOMAIN refined_entries :
               /\ refined_entries[k].title = TitleOf(Blocks(artifact)[TitledIndex[k]])
               /\ refined_entries[k].source_date =
                      IF /\ TitledIndex[k] <= Len(source_entries)
                         /\ source_entries[TitledIndex[k]].source_date # NoDate
                      THEN source_entries[TitledIndex[k]].source_date
                      ELSE today

\* an untitled block, then a titled one, with an undated and a dated entry: the
\* one record is dated as the second entry
C25_Witness ==
    /\ sharePc = "parsed"
    /\ source_entries = <<Entry(NoDate), Entry(D_Jan01)>>
    /\ Len(Blocks(artifact)) = 2
    /\ TitledIndex = <<2>>
    /\ Len(refined_entries) = 1
    /\ refined_entries[1].source_date = D_Jan01

(***************************************************************************)
(* Runs on a later day with entries that carry no date                     *)
(***************************************************************************)
\* every block of the text begins with a "## " heading that has a title
AllBlocksTitled(text) ==
    \A b \in DOMAIN Blocks(text) :
        Blocks(text)[b][1].k = "head" /\ Blocks(text)[b][1].t # <<>>

\* C26 as claimed: when no entry carries a source_date, a run on a later day over
\* unchanged source documents, with the same refinement artifact (every block
\* titled), writes nothing: the publish step returns an empty list of paths.
C26_UndatedLaterRunWritesNothing ==
    (\A e \in DOMAIN source_entries : source_entries[e].source_date = NoDate) =>
        \A i \in 2..Len(history) :
            (/\ history[i].artifact = history[i - 1].artifact
             /\ AllBlocksTitled(history[i].artifact)
             /\ Ordinal(history[i].today) > Ordinal(history[i - 1].today))
              => history[i].written = <<>>

(***************************************************************************)
(* Publish into the content vault: one file per post                       *)
(***************************************************************************)
\* the file of post i exists when the loop comes to it: it was there before the
\* call, or an earlier post of the call has the same path
StoredWhenProcessed(i) ==
    \/ \E f \in manual : f.path = PathOf(refined_entries[i])
    \/ \E j \in 1..(i - 1) : PathOf(refined_entries[j]) = PathOf(refined_entries[i])

\* C27: a save_to_content_vault call writes the post at a position exactly when
\* no file of its path ("<YYYY-MM>/<source_date>-<slug>.md") exists when the loop
\* comes to it; the files written are those posts' files, listed in order, and
\* every file that was there before the call is there after it with the same
\* lines and no second file of its path.
C27_WritesExactlyMissing ==
    [][(sharePc = "parsed" /\ policy = "content_vault" /\ sharePc' = "published") =>
        LET missing == {i \in DOMAIN refined_entries : ~StoredWhenProcessed(i)}
            posts == PickInOrder(refined_entries, missing, 1)
        IN  /\ written' = PathsOf(posts)
            /\ manual' = manual \cup
                   {[path |-> PathOf(posts[k]), lines |-> FormatPost(posts[k])] :
                        k \in DOMAIN posts}
            /\ \A f \in manual :
                   /\ f \in manual'
                   /\ \A g \in manual' : g.path = f.path => g = f
      ]_vars

\* the vault held the file of Foo; a call with Foo and Bar wrote Bar alone
C27_Witness ==
    /\ sharePc = "published"
    /\ policy = "content_vault"
    /\ run = 2
    /\ refined_entries = <<Rec(T_Foo, <<Body>>, D_Jan01), Rec(T_Bar, <<Body>>, D_Jan01)>>
    /\ written = <<PathOf(Rec(T_Bar, <<Body>>, D_Jan01))>>
    /\ Cardinality(manual) = 2

\* C28 as claimed: after a save_to_content_vault call every post of the call has
\* its title stored in its month directory: a post is skipped only when a file
\* with its title is there, so no post with a title of its own is lost.
C28_NoDistinctTitleLost ==
    (sharePc = "published" /\ policy = "content_vault") =>
        \A i \in DOMAIN refined_entries :
            \E f \in manual :
                /\ f.path.month = MonthLabel(refined_entries[i].source_date)
                /\ f.lines[1] = Heading(refined_entries[i].title)

\* C29 as claimed: after any number of save_to_content_vault calls no month
\* directory holds two files whose heading has the same title.
C29_NoDuplicateTitleInMonth ==
    \A f, g \in manual :
        (f # g /\ f.path.month = g.path.month) => f.lines[1] # g.lines[1]

(***************************************************************************)
(* Two merges at the same time on one weekly file                          *)
(***************************************************************************)
\* the place in the log of the read / write of week w by invocation p
EventAt(p, op, w) ==
    {k \in DOMAIN merges.log :
        merges.log[k].p = p /\ merges.log[k].op = op /\ merges.log[k].w = w}

\* both invocations read the file of week w before either wrote it, and both
\* wrote it
BothReadBeforeWrite(w) ==
    /\ \A p \in Invocations : EventAt(p, "read", w) # {} /\ EventAt(p, "write", w) # {}
    /\ \A p, q \in Invocations :
           \A r \in EventAt(p, "read", w) : \A x \in EventAt(q, "write", w) : r < x

\* C30: when two merge_to_shared_posts invocations both read a weekly file before
\* either writes it and both write it, the file ends as the later writer left
\* it: every entry the earlier writer appended whose title the later writer does
\* not bring itself is lost, though the earlier write held it.
C30_InterleavedMergeLosesEntries ==
    \A w \in WeekLabels : \A a, b \in Invocations :
        (/\ a # b
         /\ BothReadBeforeWrite(w)
         /\ \A x \in EventAt(a, "write", w) : \A y \in EventAt(b, "write", w) : x < y) =>
            LET read_a == merges.log[CHOOSE k \in EventAt(a, "read", w) : TRUE].content
                wrote_a == merges.log[CHOOSE k \in EventAt(a, "write", w) : TRUE].content
                wrote_b == merges.log[CHOOSE k \in EventAt(b, "write", w) : TRUE].content
                recs_a == merges.inv[a].entries
                recs_b == merges.inv[b].entries
            IN  /\ vault[w] = wrote_b
                /\ \A i \in DOMAIN recs_a :
                       (/\ IsoWeekLabel(recs_a[i].source_date) = w
                        /\ ~HasHeading(read_a, recs_a[i].title)
                        /\ \A j \in DOMAIN recs_b : recs_b[j].title # recs_a[i].title) =>
                           /\ HasHeading(wrote_a, recs_a[i].title)
                           /\ ~HasHeading(vault[w], recs_a[i].title)

\* both read the empty file of week 1; the first wrote Foo, the second wrote Bar
\* over it: the file holds Bar alone
C30_Witness ==
    /\ merges.inv # <<>>
    /\ merges.inv[1].entries = <<Rec(T_Foo, <<Body>>, D_Jan01)>>
    /\ merges.inv[2].entries = <<Rec(T_Bar, <<Body>>, D_Jan01)>>
    /\ Len(merges.log) = 4
    /\ [k \in 1..4 |-> <<merges.log[k].p, merges.log[k].op>>] =
           << <<1, "read">>, <<2, "read">>, <<1, "write">>, <<2, "write">> >>
    /\ merges.log[3].content = FormatEntry(Rec(T_Foo, <<Body>>, D_Jan01))
    /\ vault[IsoWeekLabel(D_Jan01)] = FormatEntry(Rec(T_Bar, <<Body>>, D_Jan01))

(***************************************************************************)
(* The extractor on notes that hold "date: YYYY-MM-DD" lines, in the front *)
(* matter or in the text of a segment, segments without a body and         *)
(* headings of blanks ("##  ")                                             *)
(***************************************************************************)
DatedFronts == {<<>>, <<FmLine, MetaLine, FmLine>>, <<FmLine, DateLine(D_Jan08), FmLine>>}
DatedChunks == { <<Heading(T_Foo), TagLine, FmLine, Body>>,
                 <<Heading(T_Bar), TagLine, FmLine, DateLine(T_Feb05)>>,
                 <<Heading(T_Baz), TagLine, FmLine, Blank>>,
                 <<HeadingWs, TagLine, FmLine, BodyY>> }

\* `for f in md_files`: the next file is read
ReadDatedNote ==
    /\ sharePc = "files"
    /\ md_files # <<>>
    /\ cur = NoFileRead
    /\ \E fm \in DatedFronts, cs \in SeqsUpTo(DatedChunks, MaxChunks) :
          cur' = [name |-> Head(md_files), lines |-> fm \o Concat(cs)]
    /\ UNCHANGED <<raceVars, tokenVars, transVars, policy, source_entries, today, artifact, refined_entries, vault, manual,
                   written, sharePc, run, history, input_dir, md_files, callVars, mainVars>>

NextDate ==
    \/ ExtractScan
    \/ ReadDatedNote
    \/ ExtractFile
    \/ ExtractFileDone
    \/ ExtractReturn

SpecDate == InitExtract /\ [][NextDate]_vars

(***************************************************************************)
(* transcribe.transcribe_all: one transcription per audio file             *)
(***************************************************************************)
MaxFiles == 3

TInLoop == transcribing.pc = "loop" /\ transcribing.pos <= Len(transcribing.files)

\* how the loop leaves a file: counted in `how`, its transcript there or not
TranscribeNext(how, transcript) ==
    [transcribing EXCEPT
        !.files[transcribing.pos] = transcript,
        !.pos = @ + 1,
        !.success = IF how = "success" THEN @ + 1 ELSE @,
        !.skipped = IF how = "skipped" THEN @ + 1 ELSE @,
        !.failed = IF how = "failed" THEN @ + 1 ELSE @,
        !.log = Append(@, how)]

\* transcribe.py 165-168: the transcript exists and force is off
TranscribeSkipExisting ==
    /\ TInLoop
    /\ transcribing.files[transcribing.pos] /\ ~force
    /\ transcribing' = TranscribeNext("skipped", TRUE)
    /\ UNCHANGED <<raceVars, tokenVars, callVars, shareVars, extractVars, mainVars>>

\* a dry run that passes a file without counting it (mutation of
\* TranscribeDryRun)
TranscribeDryRunUncounted ==
    /\ TInLoop
    /\ ~(transcribing.files[transcribing.pos] /\ ~force)
    /\ dry_run
    /\ transcribing' = [transcribing EXCEPT !.pos = @ + 1, !.log = Append(@, "skipped")]
    /\ UNCHANGED <<raceVars, tokenVars, callVars, shareVars, extractVars, mainVars>>

\* transcribe.py 170-173
TranscribeDryRun ==
    /\ TInLoop
    /\ ~(transcribing.files[transcribing.pos] /\ ~force)
    /\ dry_run
    /\ transcribing' = TranscribeNext("skipped", transcribing.files[transcribing.pos])
    /\ UNCHANGED <<raceVars, tokenVars, callVars, shareVars, extractVars, mainVars>>

\* transcribe.py 177-184: Buzz first when it is there, whisper when Buzz failed
\* or is not there
TranscribeOk(use_buzz, buzz_ok, whisper_ok) ==
    IF use_buzz THEN (IF buzz_ok THEN TRUE ELSE whisper_ok) ELSE whisper_ok

\* transcribe.py 175-192
TranscribeFile(buzz_ok, whisper_ok) ==
    /\ TInLoop
    /\ ~(transcribing.files[transcribing.pos] /\ ~force)
    /\ ~dry_run
    /\ transcribing' =
          IF TranscribeOk(transcribing.use_buzz, buzz_ok, whisper_ok)
          THEN TranscribeNext("success", TRUE)
          ELSE TranscribeNext("failed", transcribing.files[transcribing.pos])
    /\ UNCHANGED <<raceVars, tokenVars, callVars, shareVars, extractVars, mainVars>>

\* transcribe.py 194
TranscribeReturn ==
    /\ transcribing.pc = "loop"
    /\ transcribing.pos > Len(transcribing.files)
    /\ transcribing' = [transcribing EXCEPT !.pc = "returned"]
    /\ UNCHANGED <<raceVars, tokenVars, callVars, shareVars, extractVars, mainVars>>

\* transcribe_all on up to MaxFiles audio files under every force / dry_run,
\* with and without Buzz
InitTranscribeAll ==
    /\ caller = "refine_for_twitter"
    /\ force \in BOOLEAN /\ dry_run \in BOOLEAN /\ has_key = TRUE
    /\ groups = 0 /\ unit = 1 /\ outFiles = <<>> /\ prereq = TRUE
    /\ callPc = "idle" /\ attempt = 0 /\ requests = 0
    /\ sleeps = <<>> /\ outcomes = <<>> /\ lastResp = NoResp /\ ret = FailedResult
    /\ success = 0 /\ skipped = 0 /\ failed = 0 /\ unitLog = <<>>
    /\ runPc = "done" /\ abortReason = "none"
    /\ ShareIdle
    /\ MainIdle
    /\ ExtractIdle
    /\ RaceIdle
    /\ TokenIdle
    /\ \E fs \in SeqsUpTo(BOOLEAN, MaxFiles), b \in BOOLEAN :
          transcribing = [NoTranscribing EXCEPT !.files = fs, !.use_buzz = b, !.pc = "loop"]

InitRefineAll == InitCall /\ caller = "refine_all"

\* either of the two loops, each on its own
InitCount == InitTranscribeAll \/ InitRefineAll

NextCount ==
    \/ TranscribeSkipExisting
    \/ TranscribeDryRun
    \/ \E buzz_ok \in BOOLEAN, whisper_ok \in BOOLEAN : TranscribeFile(buzz_ok, whisper_ok)
    \/ TranscribeReturn
    \/ \E r \in Responses : CallOk(r)
    \/ \E r \in Responses : CallRetry(r)
    \/ \E r \in Responses : CallFail(r)
    \/ CallExhausted
    \/ RefineAllEnter
    \/ RefineAllSkipExisting
    \/ RefineAllDryRun
    \/ RefineAllCall
    \/ RefineAllFailed
    \/ RefineAllWrite
    \/ RefineAllReturn

SpecCount == InitCount /\ [][NextCount]_vars

(***************************************************************************)
(* Runs of a share driver, one after the other, under every combination of *)
(* its options, in an output directory that may hold the artifacts of an   *)
(* earlier run on other notes                                              *)
(***************************************************************************)
StaleExtracted == <<Heading(T_Bar), Blank, Body, Blank>>
StaleArtifact == <<Heading(T_Bar), Body>>
RunsEntrySeqs == {<<>>, <<Entry(D_Jan01)>>, <<Entry(NoDate), Entry(D_Jan01)>>}

InitRuns ==
    /\ caller = "refine_for_twitter"
    /\ force = FALSE /\ dry_run \in BOOLEAN /\ has_key \in BOOLEAN
    /\ groups = 0 /\ unit = 1 /\ outFiles = <<>> /\ prereq = TRUE
    /\ callPc = "idle" /\ attempt = 0 /\ requests = 0
    /\ sleeps = <<>> /\ outcomes = <<>> /\ lastResp = NoResp /\ ret = FailedResult
    /\ success = 0 /\ skipped = 0 /\ failed = 0 /\ unitLog = <<>>
    /\ runPc = "done" /\ abortReason = "none"
    /\ ExtractIdle
    /\ RaceIdle
    /\ TransIdle
    /\ TokenIdle
    /\ policy \in {"shared_posts", "content_vault"}
    /\ step \in Steps(policy)
    /\ no_archive = FALSE
    /\ extracted \in {Absent, StaleExtracted}
    /\ linkedin_md = Absent
    /\ unwritable = {}
    /\ trace = <<>>
    /\ exit = "none"
    /\ mainPc = "idle"
    /\ audio_files = 0 /\ t_fail = 0 /\ archived = 0
    /\ source_entries \in RunsEntrySeqs
    /\ today \in Todays
    /\ artifact \in {Absent, StaleArtifact}
    /\ refined_entries = <<>>
    /\ vault = [w \in WeekLabels |-> <<>>]
    /\ manual = {}
    /\ written = <<>>
    /\ sharePc = "extract"
    /\ run = 1
    /\ history = <<>>

NextRuns ==
    \/ MainExtract
    \/ MainDryRun
    \/ MainStepExtract
    \/ MainGetApiKey
    \/ \E refined \in StageResults : MainRefine(refined)
    \/ ParseRefinedEntries
    \/ ParseSocialPosts
    \/ MergeToSharedPosts
    \/ SaveToContentVault
    \/ MainReturn
    \/ \E td \in Todays : NextRun(td)

SpecRuns == InitRuns /\ [][NextRuns]_vars

(***************************************************************************)
(* A run of a share driver from its first statement, on an input directory *)
(* that is missing, empty, or holds notes with and without tagged segments *)
(***************************************************************************)
DirFile(name, lines) == [rank |-> name.rank, date |-> name.date, lines |-> lines]
DirFiles ==
    { DirFile(F_Dated, <<Heading(T_Foo), TagLine, Body>>),
      DirFile(F_Dated, <<Heading(T_Baz), MetaLine, Body>>),
      DirFile(F_Plain, <<Heading(T_Bar), TagLine, FmLine>>),
      DirFile(F_Plain, <<FmLine, DateLine(D_Jan08), FmLine, Heading(T_Bar), TagLine, FmLine, BodyY>>),
      DirFile(F_Plain, <<>>) }
Dirs ==
    {NoDir} \cup {fs \in SUBSET DirFiles : \A f, g \in fs : f.rank = g.rank => f = g}

InitEmpty ==
    /\ caller = "refine_for_twitter"
    /\ force = FALSE /\ dry_run \in BOOLEAN /\ has_key \in BOOLEAN
    /\ groups = 0 /\ unit = 1 /\ outFiles = <<>> /\ prereq = TRUE
    /\ callPc = "idle" /\ attempt = 0 /\ requests = 0
    /\ sleeps = <<>> /\ outcomes = <<>> /\ lastResp = NoResp /\ ret = FailedResult
    /\ success = 0 /\ skipped = 0 /\ failed = 0 /\ unitLog = <<>>
    /\ runPc = "done" /\ abortReason = "none"
    /\ input_dir \in Dirs
    /\ md_files = <<>>
    /\ cur = NoFileRead
    /\ RaceIdle
    /\ TransIdle
    /\ TokenIdle
    /\ policy \in {"shared_posts", "content_vault"}
    /\ step \in Steps(policy)
    /\ no_archive = FALSE
    /\ extracted \in {Absent, StaleExtracted}
    /\ linkedin_md = Absent
    /\ unwritable = {}
    /\ trace = <<>>
    /\ exit = "none"
    /\ mainPc = "idle"
    /\ audio_files = 0 /\ t_fail = 0 /\ archived = 0
    /\ source_entries = <<>>
    /\ today = T_Jan04
    /\ artifact \in {Absent, StaleArtifact}
    /\ refined_entries = <<>>
    /\ vault \in {[w \in WeekLabels |-> <<>>],
                  [w \in WeekLabels |->
                      IF w = IsoWeekLabel(D_Jan01)
                      THEN FormatEntry(Rec(T_Bar, <<Body>>, D_Jan01)) ELSE <<>>]}
    /\ manual = {}
    /\ written = <<>>
    /\ sharePc = "start"
    /\ run = 1
    /\ history = <<>>

NextEmpty ==
    \/ MainScan
    \/ MainExtract
    \/ MainDryRun
    \/ MainStepExtract
    \/ MainGetApiKey
    \/ \E refined \in StageResults : MainRefine(refined)
    \/ ParseRefinedEntries
    \/ ParseSocialPosts
    \/ MergeToSharedPosts
    \/ SaveToContentVault
    \/ MainReturn

SpecEmpty == InitEmpty /\ [][NextEmpty]_vars

(***************************************************************************)
(* max_tokens of a request: refine._estimate_max_tokens and the first two  *)
(* statements of the three _call_claude                                    *)
(***************************************************************************)
MIN_MAX_TOKENS == 4096
\* the multipliers in tenths: TOKEN_MULTIPLIER = 1.2, and the
\* output_multiplier=4.0 generate_social_posts passes
TOKEN_MULTIPLIER_TENTHS == 12
SOCIAL_MULTIPLIER_TENTHS == 40
MaxPayload == 3420

\* the multiplier a caller's request is estimated with
OutputMultiplier(c) ==
    IF c = "generate_social_posts" THEN SOCIAL_MULTIPLIER_TENTHS ELSE TOKEN_MULTIPLIER_TENTHS

\* an estimate without the floor of MIN_MAX_TOKENS (mutation of EstimateMaxTokens)
EstimateUnclamped(chars, tenths) == (chars * tenths) \div 10

\* max(MIN_MAX_TOKENS, int(char_count * multiplier)). The product is an IEEE
\* double: 1.2 is stored as 1.2 - 4.4e-17, the product is rounded to the nearest
\* double, and for every length below 2^50 the truncated result is the integer
\* part of the exact product char_count * 12 / 10; 4.0 is stored exactly.
EstimateMaxTokens(chars, tenths) ==
    IF (chars * tenths) \div 10 > MIN_MAX_TOKENS
    THEN (chars * tenths) \div 10
    ELSE MIN_MAX_TOKENS

\* the body of a request with a user message of `chars` characters
PrepareRequest(chars) ==
    /\ sent = NoRequest
    /\ sent' = [chars |-> chars, max_tokens |-> EstimateMaxTokens(chars, OutputMultiplier(caller))]
    /\ UNCHANGED <<raceVars, transVars, callVars, shareVars, extractVars, mainVars>>

\* the body of the request of a later call whose message is one character longer
PrepareLongerRequest ==
    /\ sent # NoRequest
    /\ sent.chars < MaxPayload
    /\ sent' = [chars |-> sent.chars + 1,
                max_tokens |-> EstimateMaxTokens(sent.chars + 1, OutputMultiplier(caller))]
    /\ UNCHANGED <<raceVars, transVars, callVars, shareVars, extractVars, mainVars>>

\* each of the four callers with the credential, about to send
InitTokens ==
    /\ caller \in Callers
    /\ force = FALSE /\ dry_run = FALSE /\ has_key = TRUE
    /\ groups = 1 /\ unit = 1 /\ outFiles = <<NoFile>> /\ prereq = TRUE
    /\ callPc = "idle" /\ attempt = 0 /\ requests = 0
    /\ sleeps = <<>> /\ outcomes = <<>> /\ lastResp = NoResp /\ ret = FailedResult
    /\ success = 0 /\ skipped = 0 /\ failed = 0 /\ unitLog = <<>>
    /\ runPc = "running" /\ abortReason = "none"
    /\ ShareIdle
    /\ MainIdle
    /\ ExtractIdle
    /\ RaceIdle
    /\ TransIdle
    /\ TokenIdle

NextTokens ==
    \/ \E chars \in 0..MaxPayload : PrepareRequest(chars)
    \/ PrepareLongerRequest

SpecTokens == InitTokens /\ [][NextTokens]_vars

(***************************************************************************)
(* Order of the stages within a run                                        *)
(***************************************************************************)
\* in the run so far every effect b came after an effect a
OnlyAfter(a, b) ==
    \A i \in DOMAIN trace : trace[i] = b => \E j \in 1..(i - 1) : trace[j] = a

\* C31: in every run of a share driver the remote call of the refine / generate
\* stage comes after the write of 01_extracted.md of that run, the 02 artifact is
\* written after that call, and a publish step that changes a destination file
\* runs with the 02 artifact written in that run from a non-empty remote result
\* and with 01_extracted.md holding the entries of that run.
C31_StageOrdering ==
    /\ [](OnlyAfter("write_extracted", "call:refine") /\ OnlyAfter("call:refine", "write_02"))
    /\ [][(vault' # vault \/ manual' # manual) =>
            /\ \E i \in DOMAIN trace : trace[i] = "write_02"
            /\ artifact \in StageResults \ {<<>>}
            /\ extracted = WriteExtracted(source_entries)
         ]_vars

\* a second run in a directory that held an older 02 artifact: its publish step
\* wrote after the refine call and the write of 02 of that run
C31_Witness ==
    /\ run = 2
    /\ sharePc = "published"
    /\ written # <<>>
    /\ trace = <<"write_extracted", "get_api_key", "call:refine", "write_02">>

(***************************************************************************)
(* The archive gate of pipeline.main                                       *)
(***************************************************************************)
Moved == \E i \in DOMAIN trace : trace[i] = "archive_move"

\* C32: pipeline.main moves audio files to the archive only in a run without
\* --step, without --no-archive and without --dry-run, in which at least one audio
\* file was discovered and neither transcribe_all nor refine_all reported a
\* failure; a run in which either reported a failure ends with no file moved.
C32_ArchiveGate ==
    /\ Moved => /\ step = "all" /\ ~no_archive /\ ~dry_run
                /\ audio_files > 0
                /\ t_fail = 0 /\ failed = 0
    /\ (caller = "refine_all" /\ mainPc = "done" /\ (t_fail > 0 \/ failed > 0)) => ~Moved

\* a full run whose two steps reported no failure moved its audio file
C32_Witness ==
    /\ caller = "refine_all" /\ mainPc = "done"
    /\ Moved
    /\ archived = audio_files
    /\ groups > 0 /\ success = groups

(***************************************************************************)
(* The daily notes refine_all leaves alone                                 *)
(***************************************************************************)
\* C33: refine_all changes output/<date>.md only for the group whose remote call
\* just returned non-empty text; a group whose file exists with force off is
\* passed without a remote call and with its file unchanged; a group whose call
\* returned the empty text, with force on or off, keeps the file it had.
C33_OverwriteProtection ==
    [][ caller = "refine_all" =>
          /\ \A u \in DOMAIN outFiles :
                (u \notin DOMAIN outFiles' \/ outFiles'[u] # outFiles[u]) =>
                    /\ u = unit /\ callPc = "returned"
                    /\ ret.text # NoText
                    /\ IsOk(lastResp) /\ lastResp.text = ret.text
          /\ (runPc = "running" /\ callPc = "idle" /\ unit <= groups
                /\ outFiles[unit] # NoFile /\ ~force) =>
                    /\ callPc' = "idle" /\ requests' = requests
                    /\ outFiles' = outFiles
          /\ (runPc = "running" /\ callPc = "returned" /\ ret.text = NoText) =>
                    outFiles' = outFiles
      ]_vars

\* with force on, the call for a date whose note exists failed and the old note
\* is still there; the next date was refined and written
C33_Witness ==
    /\ caller = "refine_all" /\ force /\ runPc = "done"
    /\ groups = 2
    /\ unitLog[1].how = "failed" /\ outFiles[1] = OldFile
    /\ unitLog[2].how = "success" /\ outFiles[2] = <<"front_matter">> \o SomeText

(***************************************************************************)
(* The counts refine_all and transcribe_all return                         *)
(***************************************************************************)
HowCount(log, how) == Cardinality({i \in DOMAIN log : log[i] = how})
UnitHowCount(how) == Cardinality({i \in DOMAIN unitLog : unitLog[i].how = how})

\* C34: the three counts refine_all returns add up to the number of date groups
\* and the three counts transcribe_all returns add up to the number of audio
\* files; each unit was counted once, in one of the three classes; under dry_run
\* every unit is counted skipped.
C34_OutcomeAccounting ==
    /\ (caller = "refine_all" /\ runPc = "done") =>
          /\ success + skipped + failed = groups
          /\ Len(unitLog) = groups
          /\ success = UnitHowCount("success")
          /\ skipped = UnitHowCount("skipped")
          /\ failed = UnitHowCount("failed")
          /\ dry_run => skipped = groups
    /\ transcribing.pc = "returned" =>
          /\ transcribing.success + transcribing.skipped + transcribing.failed
                = Len(transcribing.files)
          /\ Len(transcribing.log) = Len(transcribing.files)
          /\ transcribing.success = HowCount(transcribing.log, "success")
          /\ transcribing.skipped = HowCount(transcribing.log, "skipped")
          /\ transcribing.failed = HowCount(transcribing.log, "failed")
          /\ dry_run => transcribing.skipped = Len(transcribing.files)

\* transcribe_all returned (1, 1, 1) for three audio files
C34_Witness ==
    /\ transcribing.pc = "returned"
    /\ Len(transcribing.files) = 3
    /\ transcribing.success = 1 /\ transcribing.skipped = 1 /\ transcribing.failed = 1

(***************************************************************************)
(* Where source_date comes from                                            *)
(***************************************************************************)
\* the date field of the front matter of a document, NoDate when the document
\* has no front matter or its front matter has no date field
FrontMatterDate(lines) ==
    IF lines # <<>> /\ lines[1].k = "fm" /\ ClosingFm(lines, 2) # 0
    THEN FirstDateLine(SubSeq(lines, 2, ClosingFm(lines, 2) - 1))
    ELSE NoDate

\* C35: the entries of a document carry the date of the date field of its front
\* matter when it has one; otherwise, whatever the text of its segments holds,
\* the date in its file name, and no date when the name has none.
C35_DatePrecedence ==
    [][FileParsed =>
        \A k \in (Len(source_entries) + 1)..Len(source_entries') :
            source_entries'[k].source_date =
                IF FrontMatterDate(cur.lines) # NoDate
                THEN FrontMatterDate(cur.lines)
                ELSE cur.name.date
      ]_vars

(***************************************************************************)
(* Dates of the shape dddd-dd-dd that the calendar does not have           *)
(***************************************************************************)
\* C36: no run of a share driver ends in the ValueError that
\* datetime.fromisoformat raises on a source_date such as 2024-13-01, neither in
\* the dry-run preview nor in the publish stage: each run ends normally or with a
\* fatal diagnostic (SystemExit).
C36_NoFaultFromMalformedDate == exit # "ValueError"

(***************************************************************************)
(* What every extracted entry has                                          *)
(***************************************************************************)
\* C37: every entry the extractor returns has a non-empty body and a non-empty
\* title; a tagged segment whose body is empty gives no entry.
C37_EntryHasTitleAndBody ==
    \A i \in DOMAIN source_entries :
        /\ source_entries[i].body # <<>>
        /\ source_entries[i].title # T_Empty

(***************************************************************************)
(* The three copies of the extractor                                       *)
(***************************************************************************)
\* what share_pipeline's extractor returns for a note of one segment
PipelineEntriesOf(name, lines) ==
    IF \E i \in DOMAIN lines : LineTagged(lines[i])
    THEN << [title |-> T_Foo, body |-> <<Body>>, source_file |-> name,
             source_date |-> name.date] >>
    ELSE <<>>

\* C38: on every note the extractors of share_pipeline, share_to_social and
\* share_to_linkedin return the same entries: whichever of the three runs, the
\* entries it returns for a file are the ones share_pipeline's returns for it.
C38_SameEntriesInEveryVariant ==
    (sharePc = "files" /\ cur # NoFileRead /\ \A i \in DOMAIN md_files : md_files[i] # cur.name)
        => SelectSeq(source_entries, LAMBDA e : e.source_file = cur.name)
              = PipelineEntriesOf(cur.name, cur.lines)

(***************************************************************************)
(* A run that extracts nothing                                             *)
(***************************************************************************)
\* no file of the directory has a tagged segment with a title and a body
NoTaggedSegment(dir) ==
    \A f \in dir : SelectSeq(HeadedSegments(f.lines), TaggedTitledWithBody) = <<>>

NothingToExtract(dir) == dir = NoDir \/ dir = {} \/ NoTaggedSegment(dir)

\* C39: on an input directory that is missing, holds no .md file or holds no
\* tagged segment extract_share_entries returns the empty list, and the driver
\* then ends normally with 01_extracted.md, the 02 artifact, the weekly files and
\* the content-vault files as they were before the run, without a remote call.
C39_EmptyExtractionNoEffects ==
    /\ [](sharePc # "start" => (NothingToExtract(input_dir) <=> source_entries = <<>>))
    /\ []((sharePc \notin {"start", "extract"} /\ source_entries = <<>>) =>
            /\ sharePc = "done" /\ exit = "ok"
            /\ trace = <<>> /\ requests = 0 /\ written = <<>>)
    /\ [][NothingToExtract(input_dir) =>
            /\ extracted' = extracted /\ artifact' = artifact
            /\ vault' = vault /\ manual' = manual
            /\ linkedin_md' = linkedin_md
         ]_vars

\* a run on a directory whose only note has a tagged segment without a body
\* ended with the stale 01_extracted.md and 02 artifact of an earlier run in place
C39_Witness ==
    /\ sharePc = "done" /\ exit = "ok"
    /\ input_dir = {DirFile(F_Plain, <<Heading(T_Bar), TagLine, FmLine>>)}
    /\ source_entries = <<>>
    /\ extracted = StaleExtracted /\ artifact = StaleArtifact
    /\ ~dry_run /\ has_key

(***************************************************************************)
(* The token budget of a request                                           *)
(***************************************************************************)
\* the multiplier of the request in tenths: 4.0 for the multi-platform
\* generation, 1.2 for every other caller
ClaimedTenths == IF caller = "generate_social_posts" THEN 40 ELSE 12

\* e is the integer part of chars * tenths / 10
IsFloorOf(e, chars, tenths) == 10 * e <= chars * tenths /\ chars * tenths < 10 * (e + 1)

\* C40: the max_tokens of a request is the larger of 4096 and the integer part
\* of len(payload) * multiplier, the multiplier being 1.2, and 4.0 for the
\* multi-platform generation; it is never below 4096, and a longer payload never
\* gets a smaller max_tokens.
C40_TokenBudget ==
    /\ [](sent # NoRequest =>
            /\ sent.max_tokens >= 4096
            /\ \E e \in 0..(4 * MaxPayload + 4) :
                  /\ IsFloorOf(e, sent.chars, ClaimedTenths)
                  /\ sent.max_tokens = IF e > 4096 THEN e ELSE 4096)
    /\ [][(sent # NoRequest /\ sent'.chars >= sent.chars) =>
              sent'.max_tokens >= sent.max_tokens]_vars

\* a refine_all request of 3414 characters asks for 4096 tokens, the next one of
\* 3415 characters for 4098
C40_Witness ==
    /\ caller = "refine_all"
    /\ sent = [chars |-> 3415, max_tokens |-> 4098]

====
